---------------------------- MODULE Spec2Model ----------------------------
(***************************************************************************)
(* Hand-gesture image gallery: the gesture classifier and frame assembler  *)
(* of the useHandTracking hook, and the interaction controllers of         *)
(* ImageViewer (move/dismiss, zoom/pan) and ImageGallery (thumbs next/prev,*)
(* pinch-to-drag), composed as in the Home page.                           *)
(*                                                                         *)
(* Units.  Landmark coordinates are integers in hundredths of the          *)
(* normalized [0,1] range (0.08 is 8).  A pinchPosition is kept as the SUM *)
(* of the two tips, i.e. in two-hundredths (the midpoint 0.5 is 100), so   *)
(* that the midpoint of the code is exact.  Screen positions are pixels.   *)
(* zoom is in thousandths (1.0 is 1000).  Times are milliseconds.          *)
(* Floating-point rounding of the source is not modelled.                  *)
(***************************************************************************)
EXTENDS Integers, Sequences, FiniteSets, TLC

\* ------------------------------------------------------------ constants

\* part_000:22  PINCH_THRESHOLD = 0.08 (hundredths)
PINCH_THRESHOLD == 8
\* part_000:23  THUMB_GESTURE_THRESHOLD = 0.06 (hundredths)
THUMB_GESTURE_THRESHOLD == 6
\* window.innerWidth / window.innerHeight: the viewport of the run (pixels)
innerWidth == 2000
innerHeight == 1000
\* height of the gallery header above the element galleryRef points to
galleryHeaderHeight == 70

\* ImageGallery.tsx:35  SCROLL_SPEED = 16 (pixels per snapshot)
SCROLL_SPEED == 16
\* ImageGallery.tsx:24-33  the scrolling gallery lists 8 images
ScrollingNumImages == 8

\* Number of entries of GALLERY_IMAGES in the model (23 in the source).
NumImages == 4
\* First instant (ms) at which the model starts: the page has been loaded
\* for a while, so both clocks are past every initial threshold.
StartTime == 2000
\* How long after StartTime the clock may advance, per specification.
NavHorizon == 1600
ViewerHorizon == 800
ZoomHorizon == 500
ThrottleHorizon == 48
FrameHorizon == 32
DragHorizon == 200
HandsHorizon == 300
ReplayHorizon == 1000
MoveHorizon == 1200
PanHorizon == 300
ScrollHorizon == 272

\* ------------------------------------------------------------ helpers

Abs(n) == IF n < 0 THEN -n ELSE n
Max(a, b) == IF a > b THEN a ELSE b
Min(a, b) == IF a < b THEN a ELSE b

RECURSIVE SqrtSearch(_, _, _)
\* largest r in lo..hi with r*r <= n (lo*lo <= n < (hi+1)*(hi+1))
SqrtSearch(n, lo, hi) ==
    IF lo >= hi THEN lo
    ELSE LET mid == (lo + hi + 1) \div 2
         IN IF mid * mid <= n THEN SqrtSearch(n, mid, hi)
            ELSE SqrtSearch(n, lo, mid - 1)

\* Math.sqrt, rounded down to an integer
Sqrt(n) == SqrtSearch(n, 0, 40000)

Pt(px, py, pz) == [x |-> px, y |-> py, z |-> pz]
XY(px, py) == [x |-> px, y |-> py]

\* null / undefined of the source, for hands, points and images
NoHand == [null |-> TRUE]
NoPoint == [null |-> TRUE]
NoImage == "null"

\* GALLERY_IMAGES: the ordered collection, each entry modelled by its id
GALLERY_IMAGES == [i \in 1..NumImages |-> ToString(i)]

\* GALLERY_IMAGES.findIndex(img => img.id === id): 0-based, -1 when absent
FindIndex(id) ==
    IF \E k \in 1..Len(GALLERY_IMAGES) : GALLERY_IMAGES[k] = id
    THEN (CHOOSE k \in 1..Len(GALLERY_IMAGES) : GALLERY_IMAGES[k] = id) - 1
    ELSE -1

\* GALLERY_IMAGES[index] for a 0-based index
ImageAt(index) == GALLERY_IMAGES[index + 1]

\* ------------------------------------------------------------ classifier

\* C19 mutant: a distance equal to the threshold counts as a pinch
calculatePinch_Inclusive(landmarks) ==
    LET thumbTip == landmarks[4]
        indexTip == landmarks[8]
        d2 == (thumbTip.x - indexTip.x) * (thumbTip.x - indexTip.x)
              + (thumbTip.y - indexTip.y) * (thumbTip.y - indexTip.y)
              + (thumbTip.z - indexTip.z) * (thumbTip.z - indexTip.z)
        distance == Sqrt(d2 * 10000)
    IN [isPinching |-> distance <= PINCH_THRESHOLD * 100,
        position |-> XY(thumbTip.x + indexTip.x, thumbTip.y + indexTip.y),
        strength |-> Max(0, 10000 - (distance * 10000) \div (PINCH_THRESHOLD * 100))]

\* calculatePinch: distance is in 1/10000, strength in 1/10000
calculatePinch(landmarks) ==
    LET thumbTip == landmarks[4]
        indexTip == landmarks[8]
        d2 == (thumbTip.x - indexTip.x) * (thumbTip.x - indexTip.x)
              + (thumbTip.y - indexTip.y) * (thumbTip.y - indexTip.y)
              + (thumbTip.z - indexTip.z) * (thumbTip.z - indexTip.z)
        distance == Sqrt(d2 * 10000)
    IN [isPinching |-> distance < PINCH_THRESHOLD * 100,
        position |-> XY(thumbTip.x + indexTip.x, thumbTip.y + indexTip.y),
        strength |-> Max(0, 10000 - (distance * 10000) \div (PINCH_THRESHOLD * 100))]

\* C1 mutant: the thumbs-down comparison loses its direction
detectThumbGesture_DownFlipped(landmarks) ==
    LET fingersCurled ==
            /\ landmarks[8].y > landmarks[6].y
            /\ landmarks[12].y > landmarks[10].y
            /\ landmarks[16].y > landmarks[14].y
            /\ landmarks[20].y > landmarks[18].y
        thumbExtended ==
            \/ Abs(landmarks[4].x - landmarks[0].x) > 5
            \/ Abs(landmarks[4].y - landmarks[0].y) > 10
        thumbVertical == landmarks[1].y - landmarks[4].y
    IN [isThumbsUp |-> fingersCurled /\ thumbExtended
                        /\ thumbVertical > THUMB_GESTURE_THRESHOLD,
        isThumbsDown |-> fingersCurled /\ thumbExtended
                        /\ thumbVertical > -THUMB_GESTURE_THRESHOLD]

\* C20 mutant: a vertical difference equal to the threshold counts
detectThumbGesture_Inclusive(landmarks) ==
    LET fingersCurled ==
            /\ landmarks[8].y > landmarks[6].y
            /\ landmarks[12].y > landmarks[10].y
            /\ landmarks[16].y > landmarks[14].y
            /\ landmarks[20].y > landmarks[18].y
        thumbExtended ==
            \/ Abs(landmarks[4].x - landmarks[0].x) > 5
            \/ Abs(landmarks[4].y - landmarks[0].y) > 10
        thumbVertical == landmarks[1].y - landmarks[4].y
    IN [isThumbsUp |-> fingersCurled /\ thumbExtended
                        /\ thumbVertical >= THUMB_GESTURE_THRESHOLD,
        isThumbsDown |-> fingersCurled /\ thumbExtended
                        /\ thumbVertical <= -THUMB_GESTURE_THRESHOLD]

\* detectThumbGesture: the thumbs-up / thumbs-down flags of one hand
detectThumbGesture(landmarks) ==
    LET thumbTip == landmarks[4]
        thumbCMC == landmarks[1]
        indexTip == landmarks[8]
        indexPIP == landmarks[6]
        middleTip == landmarks[12]
        middlePIP == landmarks[10]
        ringTip == landmarks[16]
        ringPIP == landmarks[14]
        pinkyTip == landmarks[20]
        pinkyPIP == landmarks[18]
        wrist == landmarks[0]
        fingersCurled ==
            /\ indexTip.y > indexPIP.y
            /\ middleTip.y > middlePIP.y
            /\ ringTip.y > ringPIP.y
            /\ pinkyTip.y > pinkyPIP.y
        thumbExtended ==
            \/ Abs(thumbTip.x - wrist.x) > 5
            \/ Abs(thumbTip.y - wrist.y) > 10
        thumbVertical == thumbCMC.y - thumbTip.y
    IN [isThumbsUp |-> fingersCurled /\ thumbExtended
                        /\ thumbVertical > THUMB_GESTURE_THRESHOLD,
        isThumbsDown |-> fingersCurled /\ thumbExtended
                        /\ thumbVertical < -THUMB_GESTURE_THRESHOLD]

\* C40 mutant: a thumb exactly 0.05 from its MCP joint counts as extended
detectOpenPalm_Inclusive(landmarks) ==
    LET fingersExtended ==
            \A i \in 1..4 : landmarks[<<8, 12, 16, 20>>[i]].y
                               < landmarks[<<6, 10, 14, 18>>[i]].y
    IN fingersExtended /\ Abs(landmarks[4].x - landmarks[2].x) >= 5

\* detectOpenPalm: all four fingers extended and the thumb splayed
detectOpenPalm(landmarks) ==
    LET fingerTips == <<8, 12, 16, 20>>
        fingerPIPs == <<6, 10, 14, 18>>
        fingersExtended ==
            \A i \in 1..4 : landmarks[fingerTips[i]].y < landmarks[fingerPIPs[i]].y
        thumbTip == landmarks[4]
        thumbMCP == landmarks[2]
        thumbExtended == Abs(thumbTip.x - thumbMCP.x) > 5
    IN fingersExtended /\ thumbExtended

\* The HandData built in processResults for one detection.
HandDataOf(landmarks, actualHandedness) ==
    LET pinchData == calculatePinch(landmarks)
        thumbGesture == detectThumbGesture(landmarks)
    IN [landmarks |-> landmarks,
        handedness |-> actualHandedness,
        isPinching |-> pinchData.isPinching,
        pinchPosition |-> pinchData.position,
        pinchStrength |-> pinchData.strength,
        isThumbsUp |-> thumbGesture.isThumbsUp,
        isThumbsDown |-> thumbGesture.isThumbsDown,
        isOpenPalm |-> detectOpenPalm(landmarks)]

\* ------------------------------------------------------------ detector input

\* A hand of 21 landmarks built from the points the classifier reads.
\* curl[k] > 0 puts the tip of finger k (index, middle, ring, pinky) below
\* its PIP joint (tip.y > PIP.y), curl[k] < 0 above it.
Hand(thumbTip, indexTip, curl, cmcY, wrist, mcpX) ==
    [i \in 0..20 |->
        CASE i = 0 -> wrist
          [] i = 1 -> Pt(thumbTip.x, cmcY, 0)
          [] i = 2 -> Pt(mcpX, cmcY, 0)
          [] i = 3 -> Pt(thumbTip.x, (cmcY + thumbTip.y) \div 2, 0)
          [] i = 4 -> thumbTip
          [] i = 6 -> Pt(indexTip.x, indexTip.y - curl[1], 0)
          [] i = 8 -> indexTip
          [] i = 10 -> Pt(50, 50 - curl[2], 0)
          [] i = 12 -> Pt(50, 50, 0)
          [] i = 14 -> Pt(55, 50 - curl[3], 0)
          [] i = 16 -> Pt(55, 50, 0)
          [] i = 18 -> Pt(60, 50 - curl[4], 0)
          [] i = 20 -> Pt(60, 50, 0)
          [] OTHER -> Pt(50, 60, 0)]

Extended == <<-3, -3, -3, -3>>
Curled == <<3, 3, 3, 3>>

\* thumb and index tips together at (px, py): a pinch, fingers extended
PinchPose(px, py) ==
    Hand(Pt(px, py, 0), Pt(px, py, 0), Extended, py + 2, Pt(px, py + 20, 0), px)

\* tips 0.10 apart around (px, py): no pinch, fingers extended
OpenPose(px, py) ==
    Hand(Pt(px - 5, py, 0), Pt(px + 5, py, 0), Extended, py + 2, Pt(px, py + 20, 0), px)

\* fist with the thumb up: thumbCMC.y - thumbTip.y = 0.10
ThumbsUpPose(px, py) ==
    Hand(Pt(px - 5, py, 0), Pt(px + 5, py, 0), Curled, py + 10, Pt(px, py + 20, 0), px)

\* fist with the thumb down: thumbCMC.y - thumbTip.y = -0.10
ThumbsDownPose(px, py) ==
    Hand(Pt(px - 5, py, 0), Pt(px + 5, py, 0), Curled, py - 10, Pt(px, py - 20, 0), px)

\* fist with the thumb up and its tip pressed on the index tip: thumbs-up
\* and pinch at once
ThumbsUpPinchPose(px, py) ==
    Hand(Pt(px, py, 0), Pt(px, py, 0), Curled, py + 10, Pt(px, py + 20, 0), px)

\* one entry of results.multiHandLandmarks / results.multiHandedness
Detection(landmarks, label) == [landmarks |-> landmarks, label |-> label]

\* ------------------------------------------------------------ state

VARIABLES
    now,                 \* the clock read by performance.now() and Date.now()
    mounted,             \* the page (Home and its children) is mounted
    lastProcessTime,     \* useHandTracking: lastProcessTime.current
    isReady,             \* useHandTracking: state.isReady
    handsRef,            \* useHandTracking: handsRef.current is set
    initPc,              \* initHands: "importing" (awaiting the import) or "done"
    running,             \* the flag `running` of the frame-loop effect
    loopPc,              \* processFrame: "none" (never called), "sending"
                         \* (awaiting send), "raf" (animation frame requested),
                         \* "cancelled" (the request was cancelled) or
                         \* "returned" (processFrame returned at its guard)
    outstanding,         \* send calls that have not settled yet
    leftHand, rightHand, \* useHandTracking: state.leftHand / state.rightHand
    zoom, pan,           \* ImageViewer state
    isDraggingWithRight, isInDismissZone, isDismissing,
    lastPinchY, lastPinchX, isPinching, rightPinchStart,   \* ImageViewer refs
    timers,              \* deadlines of the pending setTimeout callbacks
    scrollY, draggedImage, dragPosition,                   \* ImageGallery state
    lastPinchState, lastThumbActionTime, lastSelectedId,   \* ImageGallery refs
    selectedImage, initialDragPos, isDragging,             \* Home state
    dirty,               \* effect dependencies changed since the last commit
    emitted,             \* observation: what the last step emitted
    prevLeftHand, prevRightHand, \* observation: the hands of the snapshot
                         \* published before the current one
    lastPublishAt,       \* observation: time of the last publish, -1 if none
    lastNavEventAt,      \* observation: time of the last navigate event, -1 if none
    heldSinceNav         \* observation: thumb flag held on every snapshot since
                         \* the last navigate event ("up", "down" or "none")

hookVars == <<lastProcessTime, leftHand, rightHand>>
loopVars == <<isReady, handsRef, initPc, running, loopPc, outstanding>>
viewerVars == <<zoom, pan, isDraggingWithRight, isInDismissZone, isDismissing,
                lastPinchY, lastPinchX, isPinching, rightPinchStart>>
galleryVars == <<scrollY, draggedImage, dragPosition, lastPinchState,
                 lastThumbActionTime, lastSelectedId>>
homeVars == <<selectedImage, initialDragPos, isDragging>>
obsVars == <<prevLeftHand, prevRightHand, lastPublishAt, lastNavEventAt,
            heldSinceNav>>
vars == <<now, mounted, hookVars, loopVars, viewerVars, timers, galleryVars,
          homeVars, dirty, emitted, obsVars>>

\* State after the first render and its mount effects.
Init ==
    /\ now = StartTime
    /\ mounted = TRUE
    /\ lastProcessTime = 0
    /\ isReady = FALSE
    /\ handsRef = FALSE
    /\ initPc = "importing"
    /\ running = FALSE
    /\ loopPc = "none"
    /\ outstanding = 0
    /\ leftHand = NoHand
    /\ rightHand = NoHand
    /\ zoom = 1000
    /\ pan = XY(0, 0)
    /\ isDraggingWithRight = FALSE
    /\ isInDismissZone = FALSE
    /\ isDismissing = FALSE
    /\ lastPinchY = 0
    /\ lastPinchX = 0
    /\ isPinching = FALSE
    /\ rightPinchStart = NoPoint
    /\ timers = <<>>
    /\ scrollY = 0
    /\ draggedImage = NoImage
    /\ dragPosition = XY(0, 0)
    /\ lastPinchState = FALSE
    /\ lastThumbActionTime = 0
    /\ lastSelectedId = NoImage
    /\ selectedImage = NoImage
    /\ initialDragPos = NoPoint
    /\ isDragging = FALSE
    /\ dirty = {}
    /\ emitted = <<>>
    /\ prevLeftHand = NoHand
    /\ prevRightHand = NoHand
    /\ lastPublishAt = -1
    /\ lastNavEventAt = -1
    /\ heldSinceNav = "none"

\* ------------------------------------------------------------ frame assembler

\* C21 mutant: the detector's label is taken as it is
ActualHandedness_NoFlip(label) == label

\* handedness.label === 'Left' ? 'Right' : 'Left'
ActualHandedness(label) == IF label = "Left" THEN "Right" ELSE "Left"

\* C22 mutant: a side without a detection keeps its previous signal
EmptySnapshot_Sticky == [leftHand |-> leftHand, rightHand |-> rightHand]

\* let leftHand = null; let rightHand = null
EmptySnapshot == [leftHand |-> NoHand, rightHand |-> NoHand]

RECURSIVE AssembleFrom_FirstWins(_, _, _)
\* C32 mutant: a side that is taken keeps its first detection
AssembleFrom_FirstWins(results, i, acc) ==
    IF i > Len(results) THEN acc
    ELSE LET actualHandedness == ActualHandedness(results[i].label)
             handData == HandDataOf(results[i].landmarks, actualHandedness)
         IN AssembleFrom_FirstWins(results, i + 1,
                IF actualHandedness = "Left"
                THEN (IF acc.leftHand = NoHand
                      THEN [acc EXCEPT !.leftHand = handData] ELSE acc)
                ELSE (IF acc.rightHand = NoHand
                      THEN [acc EXCEPT !.rightHand = handData] ELSE acc))

RECURSIVE AssembleFrom(_, _, _)
\* the loop of processResults over the detections i..Len(results)
AssembleFrom(results, i, acc) ==
    IF i > Len(results) THEN acc
    ELSE LET actualHandedness == ActualHandedness(results[i].label)
             handData == HandDataOf(results[i].landmarks, actualHandedness)
         IN AssembleFrom(results, i + 1,
                IF actualHandedness = "Left"
                THEN [acc EXCEPT !.leftHand = handData]
                ELSE [acc EXCEPT !.rightHand = handData])

\* C7 mutant: a gate of 6 ms
Throttled_Short == now - lastProcessTime < 6

\* the throttle gate of processResults
Throttled == now - lastProcessTime < 16

\* what the thumb flags of a newly published right hand do to heldSinceNav
HeldAfter(hand) ==
    IF hand # NoHand /\ heldSinceNav = "up" /\ hand.isThumbsUp THEN "up"
    ELSE IF hand # NoHand /\ heldSinceNav = "down" /\ hand.isThumbsDown THEN "down"
    ELSE "none"

\* processResults(results): one detection callback
ProcessResults(results) ==
    /\ mounted
    /\ dirty = {}
    /\ IF Throttled
       THEN /\ emitted' = <<[type |-> "drop"]>>
            /\ UNCHANGED <<hookVars, dirty, heldSinceNav, prevLeftHand,
                           prevRightHand, lastPublishAt>>
       ELSE LET snap == AssembleFrom(results, 1, EmptySnapshot)
            IN /\ lastProcessTime' = now
               /\ leftHand' = snap.leftHand
               /\ rightHand' = snap.rightHand
               /\ dirty' = (IF leftHand = NoHand /\ snap.leftHand = NoHand
                            THEN {} ELSE {"leftHand"})
                           \cup (IF rightHand = NoHand /\ snap.rightHand = NoHand
                                 THEN {} ELSE {"rightHand"})
               /\ heldSinceNav' = HeldAfter(snap.rightHand)
               /\ prevLeftHand' = leftHand
               /\ prevRightHand' = rightHand
               /\ lastPublishAt' = now
               /\ emitted' = <<[type |-> "publish", results |-> results,
                                sincePrev |-> IF lastPublishAt = -1 THEN -1
                                              ELSE now - lastPublishAt]>>
    /\ UNCHANGED <<now, mounted, loopVars, viewerVars, timers, galleryVars,
                   homeVars, lastNavEventAt>>

\* ------------------------------------------------------------ render values

\* The values one render hands to its effects (closures) and the refs.
Cur ==
    [leftHand |-> leftHand, rightHand |-> rightHand,
     zoom |-> zoom, pan |-> pan,
     isDraggingWithRight |-> isDraggingWithRight,
     isInDismissZone |-> isInDismissZone, isDismissing |-> isDismissing,
     lastPinchY |-> lastPinchY, lastPinchX |-> lastPinchX,
     isPinching |-> isPinching, rightPinchStart |-> rightPinchStart,
     timers |-> timers,
     scrollY |-> scrollY, draggedImage |-> draggedImage,
     dragPosition |-> dragPosition, lastPinchState |-> lastPinchState,
     lastThumbActionTime |-> lastThumbActionTime,
     lastSelectedId |-> lastSelectedId,
     selectedImage |-> selectedImage, initialDragPos |-> initialDragPos,
     isDragging |-> isDragging, emitted |-> emitted]

\* C14 mutant: the accept region is the left half of the screen
InMainView_Half(pinchX) == pinchX * 2 < innerWidth

\* (1 - pinchPosition.x) * window.innerWidth
ScreenX(hand) == ((200 - hand.pinchPosition.x) * innerWidth) \div 200
\* pinchPosition.y * window.innerHeight
ScreenY(hand) == (hand.pinchPosition.y * innerHeight) \div 200
\* pinchX < window.innerWidth * 0.75
InMainView(pinchX) == pinchX * 4 < innerWidth * 3
\* C5 mutant: only the bottom 5% dismisses
BelowDismissThreshold_Strict(pinchY) == pinchY * 100 > innerHeight * 95

\* C6 mutant: the bottom 60% dismisses
BelowDismissThreshold_Loose(pinchY) == pinchY * 100 > innerHeight * 40

\* pinchY > window.innerHeight * 0.85
BelowDismissThreshold(pinchY) == pinchY * 100 > innerHeight * 85

\* galleryRef.current.getBoundingClientRect(): the right quarter of the
\* page below the gallery header
galleryRect ==
    [left |-> (innerWidth * 3) \div 4, right |-> innerWidth,
     top |-> galleryHeaderHeight, bottom |-> innerHeight]

\* Home.handleImageSelect
handleImageSelect(w, image, position) ==
    [w EXCEPT !.selectedImage = image, !.initialDragPos = position]

\* Home.handleCloseImage
handleCloseImage(w) ==
    [w EXCEPT !.selectedImage = NoImage, !.initialDragPos = NoPoint]

\* ------------------------------------------------------------ ImageViewer

\* C28 mutant: the image follows the hand horizontally only
DragPan_XOnly(pinchX, pinchY, anchor) == XY(pinchX - anchor.x, 0)

\* the pan of a dragged image: the pinch position relative to its anchor
DragPan(pinchX, pinchY, anchor) == XY(pinchX - anchor.x, pinchY - anchor.y)

\* C38 mutant: a dismissing viewer still follows the right hand
RightHandSkipped_NotWhenDismissing(c) ==
    c.selectedImage = NoImage \/ c.rightHand = NoHand

\* if (!image || !rightHand || isDismissing) return
RightHandSkipped(c) ==
    c.selectedImage = NoImage \/ c.rightHand = NoHand \/ c.isDismissing

\* Right hand: move the image, dismiss by dragging down.  c is the render
\* the effect closed over, w the refs and the state updates queued so far.
RightHandEffect(c, w) ==
    IF RightHandSkipped(c) THEN w
    ELSE
    LET pinchX == ScreenX(c.rightHand)
        pinchY == ScreenY(c.rightHand)
        isInMainView == InMainView(pinchX)
    IN IF c.rightHand.isPinching /\ isInMainView
       THEN IF w.rightPinchStart = NoPoint
            THEN [w EXCEPT !.rightPinchStart = XY(pinchX, pinchY),
                           !.isDraggingWithRight = TRUE]
            ELSE [w EXCEPT !.pan = DragPan(pinchX, pinchY, w.rightPinchStart),
                           !.isInDismissZone = BelowDismissThreshold(pinchY)]
       ELSE IF ~c.rightHand.isPinching /\ w.rightPinchStart # NoPoint
       THEN LET released ==
                    IF c.isInDismissZone
                    THEN [w EXCEPT !.isDismissing = TRUE,
                                   !.timers = Append(@, now + 400)]
                    ELSE [w EXCEPT !.pan = XY(0, 0)]
            IN [released EXCEPT !.rightPinchStart = NoPoint,
                                !.isDraggingWithRight = FALSE,
                                !.isInDismissZone = FALSE]
       ELSE w

\* C18 mutant: the zoom has no upper limit
ClampZoom_NoUpper(z) == Max(500, z)

\* Math.max(0.5, Math.min(4, z)), in thousandths
ClampZoom(z) == Max(500, Min(4000, z))

\* C29 mutant: the zoom gate is closed while the pan gate is open
ZoomGate_Exclusive(deltaX, deltaY) ==
    Abs(deltaY) * 2 > Abs(deltaX) /\ Abs(deltaX) <= 5

\* Math.abs(deltaY) > Math.abs(deltaX) * 0.5
ZoomGate(deltaX, deltaY) == Abs(deltaY) * 2 > Abs(deltaX)

\* C30 mutant: pan.x has no lower limit
ClampPan_NoLower(x) == Min(300, x)

\* Math.max(-300, Math.min(300, x))
ClampPan(x) == Max(-300, Min(300, x))

\* Left hand: zoom and pan
LeftHandEffect(c, w) ==
    IF c.selectedImage = NoImage \/ c.leftHand = NoHand \/ c.isDraggingWithRight THEN w
    ELSE
    LET pinchY == ScreenY(c.leftHand)
        pinchX == ScreenX(c.leftHand)
    IN IF c.leftHand.isPinching
       THEN IF ~w.isPinching
            THEN [w EXCEPT !.lastPinchY = pinchY, !.lastPinchX = pinchX,
                           !.isPinching = TRUE]
            ELSE LET deltaY == pinchY - w.lastPinchY
                     deltaX == pinchX - w.lastPinchX
                     zoomed == IF ZoomGate(deltaX, deltaY)
                               THEN [w EXCEPT !.zoom = ClampZoom(@ - deltaY * 8)]
                               ELSE w
                     panned == IF Abs(deltaX) > 5
                               THEN [zoomed EXCEPT !.pan =
                                        XY(ClampPan(@.x + deltaX \div 2), @.y)]
                               ELSE zoomed
                 IN [panned EXCEPT !.lastPinchY = pinchY, !.lastPinchX = pinchX]
       ELSE [w EXCEPT !.isPinching = FALSE]

\* C34 mutant: the reset leaves pan where it is
ResetEffect_KeepsPan(c, w) ==
    [w EXCEPT !.zoom = 1000,
              !.isDraggingWithRight = FALSE, !.isInDismissZone = FALSE,
              !.isDismissing = FALSE, !.rightPinchStart = NoPoint]

\* Reset when the image changes
ResetEffect(c, w) ==
    [w EXCEPT !.zoom = 1000, !.pan = XY(0, 0),
              !.isDraggingWithRight = FALSE, !.isInDismissZone = FALSE,
              !.isDismissing = FALSE, !.rightPinchStart = NoPoint]

\* ------------------------------------------------------------ ImageGallery

\* C26 mutant: the last selected image is never recorded
LastSelectedEffect_Never(c, w) == w

\* Keep track of the last selected image
LastSelectedEffect(c, w) ==
    IF c.selectedImage # NoImage
    THEN [w EXCEPT !.lastSelectedId = c.selectedImage]
    ELSE w

\* index of the image the thumbs effect starts from; none is the value
\* currentIndex is initialised with
CurrentIndex(c, w, none) ==
    IF c.selectedImage # NoImage THEN FindIndex(c.selectedImage)
    ELSE IF w.lastSelectedId # NoImage THEN FindIndex(w.lastSelectedId)
    ELSE none

\* the navigate observation of one onImageSelect call of the thumbs effect
NavEvent(c, dir, from, index) ==
    [type |-> "navigate", dir |-> dir, from |-> from, index |-> index,
     closed |-> c.selectedImage = NoImage,
     held |-> heldSinceNav,
     sincePrev |-> IF lastNavEventAt = -1 THEN -1 ELSE now - lastNavEventAt]

\* C2 mutant: a cooldown of half a second
InCooldown_Short(w) == now - w.lastThumbActionTime < 500

\* C3 mutant: a cooldown of two seconds
InCooldown_Long(w) == now - w.lastThumbActionTime < 2000

\* C23 mutant: the cooldown still holds at exactly one second
InCooldown_Inclusive(w) == now - w.lastThumbActionTime <= 1000

\* the 1 second cooldown test of the thumbs effect
InCooldown(w) == now - w.lastThumbActionTime < 1000

\* C4 mutant: thumbs-up at the last image stays on it
NextIndex_NoWrap(currentIndex) ==
    IF currentIndex + 1 < Len(GALLERY_IMAGES) THEN currentIndex + 1 ELSE currentIndex

\* the index thumbs-up selects
NextIndex(currentIndex) ==
    IF currentIndex + 1 < Len(GALLERY_IMAGES) THEN currentIndex + 1 ELSE 0

\* C39 mutant: thumbs-down below the first image stays on the first
PrevIndex_Floor(currentIndex) ==
    IF currentIndex - 1 >= 0 THEN currentIndex - 1 ELSE 0

\* the index thumbs-down selects
PrevIndex(currentIndex) ==
    IF currentIndex - 1 >= 0 THEN currentIndex - 1 ELSE Len(GALLERY_IMAGES) - 1

\* C15 mutant: an active drag does not stop the thumbs effect
ThumbsSuppressed_HandOnly(c) == c.rightHand = NoHand

\* the first early return of the thumbs effect
ThumbsSuppressed(c) == c.rightHand = NoHand \/ c.draggedImage # NoImage

\* Thumbs up/down: next / previous image
ThumbsEffect(c, w) ==
    IF ThumbsSuppressed(c) THEN w
    ELSE IF InCooldown(w) THEN w
    ELSE IF c.rightHand.isThumbsUp
    THEN LET currentIndex == CurrentIndex(c, w, -1)
             nextIndex == NextIndex(currentIndex)
             sel == handleImageSelect(w, ImageAt(nextIndex), NoPoint)
         IN [sel EXCEPT !.lastThumbActionTime = now,
                        !.scrollY = Max(0, nextIndex * 140 - 100),
                        !.emitted = Append(@, NavEvent(c, "up", currentIndex, nextIndex))]
    ELSE IF c.rightHand.isThumbsDown
    THEN LET currentIndex == CurrentIndex(c, w, 0)
             prevIndex == PrevIndex(currentIndex)
             sel == handleImageSelect(w, ImageAt(prevIndex), NoPoint)
         IN [sel EXCEPT !.lastThumbActionTime = now,
                        !.scrollY = Max(0, prevIndex * 140 - 100),
                        !.emitted = Append(@, NavEvent(c, "down", currentIndex, prevIndex))]
    ELSE w

\* C31 mutant: the hit-test is repeated on every pinching snapshot
PinchEffect_EveryTick(c, w, hit) ==
    IF c.rightHand = NoHand THEN w
    ELSE IF c.rightHand.isPinching /\ hit # NoImage /\ FindIndex(hit) # -1
    THEN [w EXCEPT !.draggedImage = hit,
                   !.dragPosition = XY(ScreenX(c.rightHand), ScreenY(c.rightHand)),
                   !.isDragging = TRUE,
                   !.lastPinchState = TRUE]
    ELSE [w EXCEPT !.lastPinchState = c.rightHand.isPinching]

\* Pinch-to-drag in the gallery.  hit is the data-image-id of the element
\* document.elementFromPoint finds under the pinch, or NoImage.
PinchEffect(c, w, hit) ==
    IF c.rightHand = NoHand \/ c.draggedImage # NoImage THEN w
    ELSE IF c.rightHand.isThumbsUp \/ c.rightHand.isThumbsDown THEN w
    ELSE
    LET pinchX == ScreenX(c.rightHand)
        pinchY == ScreenY(c.rightHand)
        isInGallery == /\ pinchX >= galleryRect.left /\ pinchX <= galleryRect.right
                       /\ pinchY >= galleryRect.top /\ pinchY <= galleryRect.bottom
        engaged ==
            IF c.rightHand.isPinching /\ isInGallery /\ ~w.lastPinchState
               /\ hit # NoImage /\ FindIndex(hit) # -1
            THEN [w EXCEPT !.draggedImage = hit,
                           !.dragPosition = XY(pinchX, pinchY),
                           !.isDragging = TRUE]
            ELSE w
    IN [engaged EXCEPT !.lastPinchState = c.rightHand.isPinching]

\* Dragging an image, dropping it when the pinch ends
DragEffect(c, w) ==
    IF c.draggedImage = NoImage \/ c.rightHand = NoHand THEN w
    ELSE
    LET pinchX == ScreenX(c.rightHand)
        pinchY == ScreenY(c.rightHand)
        moved == [w EXCEPT !.dragPosition = XY(pinchX, pinchY)]
    IN IF ~c.rightHand.isPinching
       THEN LET dropped ==
                    IF InMainView(pinchX)
                    THEN [handleImageSelect(moved, c.draggedImage, XY(pinchX, pinchY))
                            EXCEPT !.emitted = Append(@,
                                [type |-> "select", image |-> c.draggedImage,
                                 position |-> XY(pinchX, pinchY)])]
                    ELSE moved
            IN [dropped EXCEPT !.draggedImage = NoImage, !.isDragging = FALSE]
       ELSE moved

\* ------------------------------------------------------------ scrolling gallery
\* ImageGallery.tsx: the gallery that scrolls by SCROLL_SPEED per snapshot
\* and finds the pinched item from the scroll offset.  It keeps the state
\* scrollY, draggedImage, dragPosition and the ref lastPinchState of the
\* gallery above; isThumbScrolling and hoveredImage only drive rendering.

\* GALLERY_IMAGES of ImageGallery.tsx
Scrolling_GALLERY_IMAGES == [i \in 1..ScrollingNumImages |-> ToString(i)]

\* Math.max(0, GALLERY_IMAGES.length * 140 - (galleryRect.height - 60))
maxScroll ==
    Max(0, Len(Scrolling_GALLERY_IMAGES) * 140
           - ((galleryRect.bottom - galleryRect.top) - 60))

\* C35 mutant: thumbs-down scrolls on without the upper limit
ScrollEffect_NoUpperLimit(c, w) ==
    IF c.rightHand = NoHand \/ c.draggedImage # NoImage THEN w
    ELSE IF c.rightHand.isThumbsUp
    THEN [w EXCEPT !.scrollY = Max(0, @ - SCROLL_SPEED)]
    ELSE IF c.rightHand.isThumbsDown
    THEN [w EXCEPT !.scrollY = @ + SCROLL_SPEED]
    ELSE w

\* Thumbs up/down scroll for the right hand
ScrollEffect(c, w) ==
    IF c.rightHand = NoHand \/ c.draggedImage # NoImage THEN w
    ELSE IF c.rightHand.isThumbsUp
    THEN [w EXCEPT !.scrollY = Max(0, @ - SCROLL_SPEED)]
    ELSE IF c.rightHand.isThumbsDown
    THEN [w EXCEPT !.scrollY = Min(maxScroll, @ + SCROLL_SPEED)]
    ELSE w

\* Pinch-to-drag in the scrolling gallery: the item is found from the
\* pinch height and the scroll offset
ScrollingPinchEffect(c, w) ==
    IF c.rightHand = NoHand \/ c.draggedImage # NoImage THEN w
    ELSE IF c.rightHand.isThumbsUp \/ c.rightHand.isThumbsDown THEN w
    ELSE
    LET pinchX == ScreenX(c.rightHand)
        pinchY == ScreenY(c.rightHand)
        isInGallery == /\ pinchX >= galleryRect.left /\ pinchX <= galleryRect.right
                       /\ pinchY >= galleryRect.top /\ pinchY <= galleryRect.bottom
        relY == pinchY - galleryRect.top + c.scrollY
        imageIndex == relY \div 140
        engaged ==
            IF c.rightHand.isPinching /\ isInGallery /\ ~w.lastPinchState
               /\ imageIndex >= 0 /\ imageIndex < Len(Scrolling_GALLERY_IMAGES)
            THEN [w EXCEPT !.draggedImage = Scrolling_GALLERY_IMAGES[imageIndex + 1],
                           !.dragPosition = XY(pinchX, pinchY),
                           !.isDragging = TRUE]
            ELSE w
    IN [engaged EXCEPT !.lastPinchState = c.rightHand.isPinching]

\* dependencies of the effects of the scrolling gallery
ScrollDeps == {"rightHand", "draggedImage"}
ScrollingPinchDeps == {"rightHand", "draggedImage", "scrollY"}

\* ------------------------------------------------------------ commit

\* dependencies of each effect, by the names used in dirty
RightHandDeps == {"rightHand", "selectedImage", "isInDismissZone", "isDismissing"}
LeftHandDeps == {"leftHand", "selectedImage", "isDraggingWithRight"}
ResetDeps == {"selectedImage"}
LastSelectedDeps == {"selectedImage"}
ThumbsDeps == {"rightHand", "draggedImage", "selectedImage"}
PinchDeps == {"rightHand", "draggedImage", "scrollY"}
DragDeps == {"rightHand", "draggedImage"}

\* the state values effects depend on (the hands aside)
StateDeps == {"isInDismissZone", "isDismissing", "isDraggingWithRight",
              "selectedImage", "draggedImage", "scrollY"}

Runs(deps) == dirty \cap deps # {}

\* The effects of one commit, in React's order: the children's effects
\* (ImageViewer, then ImageGallery) in declaration order.
RunEffects(c, hit) ==
    LET w0 == [c EXCEPT !.emitted = <<>>]
        w1 == IF Runs(RightHandDeps) THEN RightHandEffect(c, w0) ELSE w0
        w2 == IF Runs(LeftHandDeps) THEN LeftHandEffect(c, w1) ELSE w1
        w3 == IF Runs(ResetDeps) THEN ResetEffect(c, w2) ELSE w2
        w4 == IF Runs(LastSelectedDeps) THEN LastSelectedEffect(c, w3) ELSE w3
        w5 == IF Runs(ThumbsDeps) THEN ThumbsEffect(c, w4) ELSE w4
        w6 == IF Runs(PinchDeps) THEN PinchEffect(c, w5, hit) ELSE w5
        w7 == IF Runs(DragDeps) THEN DragEffect(c, w6) ELSE w6
    IN w7

\* The effects of one commit of the page with the scrolling gallery
ScrollingRunEffects(c) ==
    LET w0 == [c EXCEPT !.emitted = <<>>]
        w1 == IF Runs(RightHandDeps) THEN RightHandEffect(c, w0) ELSE w0
        w2 == IF Runs(LeftHandDeps) THEN LeftHandEffect(c, w1) ELSE w1
        w3 == IF Runs(ResetDeps) THEN ResetEffect(c, w2) ELSE w2
        w4 == IF Runs(ScrollDeps) THEN ScrollEffect(c, w3) ELSE w3
        w5 == IF Runs(ScrollingPinchDeps) THEN ScrollingPinchEffect(c, w4) ELSE w4
        w6 == IF Runs(DragDeps) THEN DragEffect(c, w5) ELSE w5
    IN w6

NavEventsOf(events) ==
    {i \in 1..Len(events) : events[i].type = "navigate"}

\* One render and commit: every effect whose dependencies changed runs on
\* the values of this render; the updates they queue are applied together.
Committed(c, w) ==
    /\ mounted
    /\ dirty # {}
    /\ zoom' = w.zoom
    /\ pan' = w.pan
    /\ isDraggingWithRight' = w.isDraggingWithRight
    /\ isInDismissZone' = w.isInDismissZone
    /\ isDismissing' = w.isDismissing
    /\ lastPinchY' = w.lastPinchY
    /\ lastPinchX' = w.lastPinchX
    /\ isPinching' = w.isPinching
    /\ rightPinchStart' = w.rightPinchStart
    /\ timers' = w.timers
    /\ scrollY' = w.scrollY
    /\ draggedImage' = w.draggedImage
    /\ dragPosition' = w.dragPosition
    /\ lastPinchState' = w.lastPinchState
    /\ lastThumbActionTime' = w.lastThumbActionTime
    /\ lastSelectedId' = w.lastSelectedId
    /\ selectedImage' = w.selectedImage
    /\ initialDragPos' = w.initialDragPos
    /\ isDragging' = w.isDragging
    /\ emitted' = w.emitted
    /\ dirty' = {n \in StateDeps : w[n] # c[n]}
    /\ lastNavEventAt' = IF NavEventsOf(w.emitted) # {} THEN now
                         ELSE lastNavEventAt
    /\ heldSinceNav' =
          IF NavEventsOf(w.emitted) # {}
          THEN w.emitted[CHOOSE i \in NavEventsOf(w.emitted) : TRUE].dir
          ELSE heldSinceNav
    /\ UNCHANGED <<now, mounted, hookVars, loopVars, prevLeftHand,
                   prevRightHand, lastPublishAt>>

\* One render and commit of the page; hit is what elementFromPoint finds
Commit(hit) == Committed(Cur, RunEffects(Cur, hit))

\* One render and commit of the page with the scrolling gallery
ScrollingCommit == Committed(Cur, ScrollingRunEffects(Cur))

\* ------------------------------------------------------------ timers, clock

\* The callback of the setTimeout of the dismiss branch
TimerFire ==
    /\ dirty = {}
    /\ timers # <<>>
    /\ now >= Head(timers)
    /\ timers' = Tail(timers)
    /\ emitted' = <<[type |-> "close"]>>
    /\ IF mounted
       THEN /\ selectedImage' = NoImage
            /\ initialDragPos' = NoPoint
            /\ isDismissing' = FALSE
            /\ isInDismissZone' = FALSE
            /\ dirty' = (IF selectedImage # NoImage THEN {"selectedImage"} ELSE {})
                        \cup (IF isDismissing THEN {"isDismissing"} ELSE {})
                        \cup (IF isInDismissZone THEN {"isInDismissZone"} ELSE {})
       ELSE UNCHANGED <<selectedImage, initialDragPos, isDismissing,
                        isInDismissZone, dirty>>
    /\ UNCHANGED <<now, mounted, hookVars, loopVars, zoom, pan,
                   isDraggingWithRight, lastPinchY, lastPinchX, isPinching,
                   rightPinchStart, galleryVars, isDragging, obsVars>>

\* Time passes by d ms, up to horizon ms after StartTime.  A due timer
\* fires before the clock moves on.
Tick(d, horizon) ==
    /\ dirty = {}
    /\ now + d <= StartTime + horizon
    /\ IF timers = <<>> THEN TRUE ELSE now + d <= Head(timers)
    /\ now' = now + d
    /\ emitted' = <<>>
    /\ UNCHANGED <<mounted, hookVars, loopVars, viewerVars, timers, galleryVars,
                   homeVars, dirty, obsVars>>

\* The page is torn down.  The two effects of useHandTracking clean up:
\* the flags `mounted` and `running` are cleared and the animation frame
\* whose id is in animationFrameRef is cancelled.  No effect of ImageViewer
\* or ImageGallery has a cleanup, so nothing else changes.
Unmount ==
    /\ mounted
    /\ mounted' = FALSE
    /\ running' = FALSE
    /\ loopPc' = IF loopPc = "raf" THEN "cancelled" ELSE loopPc
    /\ dirty' = {}
    /\ emitted' = <<[type |-> "unmount"]>>
    /\ UNCHANGED <<now, hookVars, isReady, handsRef, initPc, outstanding,
                   viewerVars, timers, galleryVars, homeVars, obsVars>>

\* ------------------------------------------------------------ frame loop

\* C25 mutant: initialisation stores the detector and leaves isReady
InitHandsResolve_NoReady ==
    /\ initPc = "importing"
    /\ initPc' = "done"
    /\ IF mounted
       THEN handsRef' = TRUE /\ UNCHANGED isReady
       ELSE UNCHANGED <<handsRef, isReady>>
    /\ emitted' = <<[type |-> "init"]>>
    /\ UNCHANGED <<now, mounted, hookVars, running, loopPc, outstanding,
                   viewerVars, timers, galleryVars, homeVars, dirty, obsVars>>

\* initHands resumes after `await import(...)`: it gives up when the effect
\* has been cleaned up, else it creates the detector, registers
\* processResults, stores the detector and sets isReady.
InitHandsResolve ==
    /\ initPc = "importing"
    /\ initPc' = "done"
    /\ IF mounted
       THEN handsRef' = TRUE /\ isReady' = TRUE
       ELSE UNCHANGED <<handsRef, isReady>>
    /\ emitted' = <<[type |-> "init"]>>
    /\ UNCHANGED <<now, mounted, hookVars, running, loopPc, outstanding,
                   viewerVars, timers, galleryVars, homeVars, dirty, obsVars>>

\* C11 mutant: processFrame tests only the detector
Runnable_DetectorOnly(isRunning) == handsRef

\* the guard of processFrame; videoRef.current is set while the page is mounted
Runnable(isRunning) == isRunning /\ mounted /\ handsRef

\* C12 mutant: the send call is not awaited
AfterSubmit_NoAwait == "raf"

\* where processFrame is after handsRef.current.send(...): awaiting it
AfterSubmit == "sending"

\* more outstanding send calls than this are not counted
MaxOutstanding == 2

\* One call of processFrame up to its first await or its end.  isRunning
\* is the flag `running` as the call reads it, videoReady is
\* videoRef.current.readyState >= 2.
ProcessFrame(isRunning, videoReady) ==
    IF ~Runnable(isRunning)
    THEN /\ loopPc' = "returned"
         /\ emitted' = <<[type |-> "return"]>>
         /\ UNCHANGED outstanding
    ELSE IF videoReady
    THEN /\ outstanding < MaxOutstanding
         /\ loopPc' = AfterSubmit
         /\ outstanding' = outstanding + 1
         /\ emitted' = <<[type |-> "send"]>>
    ELSE /\ loopPc' = "raf"
         /\ emitted' = <<[type |-> "skip"]>>
         /\ UNCHANGED outstanding

\* The frame-loop effect runs on the render in which isReady is true:
\* it sets `running` and calls processFrame.
FrameEffect(videoReady) ==
    /\ mounted /\ isReady /\ handsRef
    /\ loopPc = "none"
    /\ running' = TRUE
    /\ ProcessFrame(TRUE, videoReady)
    /\ UNCHANGED <<now, mounted, hookVars, isReady, handsRef, initPc,
                   viewerVars, timers, galleryVars, homeVars, dirty, obsVars>>

\* The requested animation frame arrives: processFrame is called.
RafFire(videoReady) ==
    /\ loopPc = "raf"
    /\ ProcessFrame(running, videoReady)
    /\ UNCHANGED <<now, mounted, hookVars, isReady, handsRef, initPc, running,
                   viewerVars, timers, galleryVars, homeVars, dirty, obsVars>>

\* C24 mutant: a rejected send call ends the loop
AfterSettle_StopOnError(ok) == IF ok THEN "raf" ELSE "returned"

\* where processFrame goes after the try/catch around the awaited send
AfterSettle(ok) == "raf"

\* The awaited send call settles (ok: resolved, else rejected and caught):
\* processFrame requests the next animation frame.
SendSettle(ok) ==
    /\ loopPc = "sending"
    /\ outstanding > 0
    /\ outstanding' = outstanding - 1
    /\ loopPc' = AfterSettle(ok)
    /\ emitted' = <<[type |-> "settle", ok |-> ok]>>
    /\ UNCHANGED <<now, mounted, hookVars, isReady, handsRef, initPc, running,
                   viewerVars, timers, galleryVars, homeVars, dirty, obsVars>>

\* ------------------------------------------------------------ specifications

\* what document.elementFromPoint may find under a pinch in the gallery
HitSet == {NoImage} \cup {GALLERY_IMAGES[k] : k \in 1..Len(GALLERY_IMAGES)}

RightOnly(poses) == {<<>>} \cup {<<Detection(p, "Left")>> : p \in poses}
LeftOnly(poses) == {<<>>} \cup {<<Detection(p, "Right")>> : p \in poses}

\* Thumbs navigation and gallery drag: right hand only
NavPoses ==
    {ThumbsUpPose(50, 50), ThumbsDownPose(50, 50), OpenPose(50, 50),
     PinchPose(10, 50)}
NavSteps == {400, 600}
NavPublish == \E r \in RightOnly(NavPoses) : ProcessResults(r)
NavCommit == \E hit \in HitSet : Commit(hit)
NavTick == \E d \in NavSteps : Tick(d, NavHorizon)
NextNav == NavPublish \/ NavCommit \/ NavTick
SpecNav == Init /\ [][NextNav]_vars

\* Move/dismiss in the viewer: right hand only, in the main view
ViewerPoses ==
    {ThumbsUpPose(50, 50), PinchPose(50, 50), PinchPose(50, 90), OpenPose(50, 50)}
ViewerSteps == {100}
ViewerPublish == \E r \in RightOnly(ViewerPoses) : ProcessResults(r)
ViewerCommit == Commit(NoImage)
ViewerTick == \E d \in ViewerSteps : Tick(d, ViewerHorizon)
NextViewer == ViewerPublish \/ ViewerCommit \/ ViewerTick \/ TimerFire \/ Unmount
SpecViewer == Init /\ [][NextViewer]_vars

\* Zoom/pan in the viewer: a right thumbs-up opens an image, then the
\* left hand acts
ZoomPoses ==
    {PinchPose(50, 50), PinchPose(50, 60), PinchPose(50, 10), PinchPose(40, 50),
     OpenPose(50, 50)}
ZoomResults == LeftOnly(ZoomPoses) \cup {<<Detection(ThumbsUpPose(50, 50), "Left")>>}
ZoomSteps == {100}
ZoomPublish == \E r \in ZoomResults : ProcessResults(r)
ZoomCommit == Commit(NoImage)
ZoomTick == \E d \in ZoomSteps : Tick(d, ZoomHorizon)
NextZoom == ZoomPublish \/ ZoomCommit \/ ZoomTick
SpecZoom == Init /\ [][NextZoom]_vars

\* The throttle of the frame assembler: callbacks 5 and 16 ms apart
ThrottleSteps == {5, 16}
ThrottlePublish == \E r \in RightOnly({OpenPose(50, 50)}) : ProcessResults(r)
ThrottleCommit == Commit(NoImage)
ThrottleTick == \E d \in ThrottleSteps : Tick(d, ThrottleHorizon)
NextThrottle == ThrottlePublish \/ ThrottleCommit \/ ThrottleTick
SpecThrottle == Init /\ [][NextThrottle]_vars

\* Gallery drag: the right hand pinches items of the gallery and releases
\* them over the gallery or over the main view
DragPoses ==
    {PinchPose(10, 50), PinchPose(10, 60), OpenPose(10, 50), OpenPose(35, 50),
     ThumbsUpPinchPose(10, 50), ThumbsUpPose(10, 50)}
DragSteps == {100}
DragPublish == \E r \in RightOnly(DragPoses) : ProcessResults(r)
DragCommit == \E hit \in HitSet : Commit(hit)
DragTick == \E d \in DragSteps : Tick(d, DragHorizon)
NextDrag == DragPublish \/ DragCommit \/ DragTick
SpecDrag == Init /\ [][NextDrag]_vars

\* Scrolling gallery: the right hand scrolls with thumbs up and down,
\* pinches an item and lets it go over the gallery
ScrollPoses ==
    {ThumbsUpPose(10, 50), ThumbsDownPose(10, 50), PinchPose(10, 50),
     OpenPose(10, 50), ThumbsUpPinchPose(10, 50)}
ScrollSteps == {16}
ScrollPublish == \E r \in RightOnly(ScrollPoses) : ProcessResults(r)
ScrollTick == \E d \in ScrollSteps : Tick(d, ScrollHorizon)
NextScroll == ScrollPublish \/ ScrollingCommit \/ ScrollTick
SpecScroll == Init /\ [][NextScroll]_vars

\* Both hands over the viewer: the right hand opens an image with a
\* thumbs-up and drags it, the left hand zooms and pans
TwoHands(leftPoses, rightPoses) ==
    LeftOnly(leftPoses) \cup RightOnly(rightPoses)
    \cup {<<Detection(l, "Right"), Detection(r, "Left")>> :
             l \in leftPoses, r \in rightPoses}
HandsLeftPoses == {PinchPose(50, 50), PinchPose(50, 60), OpenPose(50, 50)}
HandsRightPoses == {ThumbsUpPose(50, 50), PinchPose(30, 50), OpenPose(30, 50)}
HandsSteps == {100}
HandsPublish ==
    \E r \in TwoHands(HandsLeftPoses, HandsRightPoses) : ProcessResults(r)
HandsCommit == Commit(NoImage)
HandsTick == \E d \in HandsSteps : Tick(d, HandsHorizon)
NextHands == HandsPublish \/ HandsCommit \/ HandsTick
SpecHands == Init /\ [][NextHands]_vars

\* Snapshots published again unchanged, half a second apart, to all four
\* controllers
ReplayLeftPoses == {PinchPose(50, 50), OpenPose(50, 50)}
ReplayRightPoses ==
    {ThumbsUpPose(30, 50), PinchPose(30, 50), PinchPose(10, 50), OpenPose(30, 50)}
ReplaySteps == {500}
ReplayPublish ==
    \E r \in TwoHands(ReplayLeftPoses, ReplayRightPoses) : ProcessResults(r)
ReplayCommit == \E hit \in {NoImage, GALLERY_IMAGES[1]} : Commit(hit)
ReplayTick == \E d \in ReplaySteps : Tick(d, ReplayHorizon)
NextReplay == ReplayPublish \/ ReplayCommit \/ ReplayTick
SpecReplay == Init /\ [][NextReplay]_vars

\* Right hand over gallery and viewer: an image dragged out of the gallery
\* is opened, moved, dismissed, and the thumbs navigate from it
MovePoses ==
    {PinchPose(10, 50), OpenPose(35, 50), PinchPose(35, 50), PinchPose(35, 90),
     ThumbsUpPose(35, 50), ThumbsDownPose(35, 50)}
MoveSteps == {200}
MovePublish == \E r \in RightOnly(MovePoses) : ProcessResults(r)
MoveHits == {NoImage, GALLERY_IMAGES[Len(GALLERY_IMAGES)]}
MoveCommit == \E hit \in MoveHits : Commit(hit)
MoveTick == \E d \in MoveSteps : Tick(d, MoveHorizon)
NextMove == MovePublish \/ MoveCommit \/ MoveTick \/ TimerFire
SpecMove == Init /\ [][NextMove]_vars

\* The left hand pans an image the right hand has dragged away and let go
\* in the dismiss zone
PanLeftPoses == {PinchPose(50, 50), PinchPose(40, 50)}
PanRightPoses ==
    {ThumbsUpPose(50, 50), PinchPose(30, 50), PinchPose(60, 90), OpenPose(30, 50)}
PanSteps == {100}
PanPublish == \E r \in TwoHands(PanLeftPoses, PanRightPoses) : ProcessResults(r)
PanCommit == Commit(NoImage)
PanTick == \E d \in PanSteps : Tick(d, PanHorizon)
NextPan == PanPublish \/ PanCommit \/ PanTick
SpecPan == Init /\ [][NextPan]_vars

\* callbacks in which the detector gives both of its detections one label
SameLabel(first, second) ==
    {<<Detection(first, label), Detection(second, label)>> : label \in {"Left", "Right"}}

\* The frame loop: initialisation, the loop of processFrame, the detector's
\* callback during a send call, and teardown
FrameSteps == {16}
FrameInit == InitHandsResolve
FrameStart == \E v \in BOOLEAN : FrameEffect(v)
FrameRaf == \E v \in BOOLEAN : RafFire(v)
FrameSettle == \E ok \in BOOLEAN : SendSettle(ok)
FrameResults ==
    /\ loopPc = "sending"
    /\ \E r \in TwoHands({PinchPose(50, 50)}, {OpenPose(50, 50), PinchPose(50, 50)})
                \cup SameLabel(OpenPose(50, 50), PinchPose(30, 50)) :
          ProcessResults(r)
FrameCommit == Commit(NoImage)
FrameTick == \E d \in FrameSteps : Tick(d, FrameHorizon)
NextFrame ==
    \/ FrameInit \/ FrameStart \/ FrameRaf \/ FrameSettle \/ FrameResults
    \/ FrameCommit \/ FrameTick \/ Unmount
SpecFrame == Init /\ [][NextFrame]_vars

\* The classifier: one callback with one hand drawn from a family that
\* varies every coordinate the thumb classifier reads
ClassifyHands ==
    {Hand(Pt(tx, 50, 0), Pt(tx + dx, 50, dz), curl, 50 + v,
          Pt(tx + wx, 50 + wy, 0), tx) :
        tx \in {30, 50, 70}, dx \in {0, 6, 8, 10}, dz \in {0, 5},
        curl \in {Curled, Extended, <<3, 3, 3, -3>>, <<0, 3, 3, 3>>},
        v \in {-10, -7, -6, -2, 0, 2, 6, 7, 10},
        wx \in {0, 5, 6}, wy \in {0, 10, 11}}
\* hands that vary what the open-palm test reads: the thumb 0.04, 0.05 or
\* 0.06 from its MCP joint on either side, each finger pattern, with and
\* without a pinch, the thumb up, level or down
PalmHands ==
    {Hand(Pt(50, 50, 0), Pt(50 + dx, 50, 0), curl, 50 + v, Pt(50, 70, 0), 50 + s) :
        dx \in {0, 10},
        curl \in {Extended, Curled, <<-3, -3, -3, 3>>, <<0, -3, -3, -3>>},
        v \in {-10, 2, 10},
        s \in {-6, 4, 5, 6}}
ClassifyResults ==
    {<<Detection(h, label)>> :
        h \in ClassifyHands \cup PalmHands, label \in {"Left", "Right"}}
\* the first callback only: without a clock step every later one is dropped
ClassifyPublish ==
    /\ lastPublishAt = -1
    /\ \E r \in ClassifyResults : ProcessResults(r)
ClassifyCommit == Commit(NoImage)
NextClassify == ClassifyPublish \/ ClassifyCommit
SpecClassify == Init /\ [][NextClassify]_vars

\* ------------------------------------------------------------ properties

\* C1: no published hand has isThumbsUp and isThumbsDown both set.
C1_ThumbsExclusive ==
    \A h \in {leftHand, rightHand} :
        h # NoHand => ~(h.isThumbsUp /\ h.isThumbsDown)

\* C1 witness: a published fist with the thumb up, classified up only
C1_Witness ==
    rightHand # NoHand /\ rightHand.isThumbsUp /\ ~rightHand.isThumbsDown

NavEmitted(events) == NavEventsOf(events) # {}

\* a commit is about to process a newly published right hand showing a
\* thumb gesture, with no gallery drag active
ThumbSnapshotPending ==
    /\ mounted
    /\ "rightHand" \in dirty
    /\ rightHand # NoHand
    /\ rightHand.isThumbsUp \/ rightHand.isThumbsDown
    /\ draggedImage = NoImage

\* C2: a navigate event is never emitted less than 1000 ms after the
\* previous one, and a thumbs-up/down snapshot processed 1000 ms or more
\* after the previous event (or before any event) does emit one.
C2_CooldownGate ==
    [][ /\ \A i \in NavEventsOf(emitted') :
              emitted'[i].sincePrev = -1 \/ emitted'[i].sincePrev >= 1000
        /\ ( /\ ThumbSnapshotPending /\ mounted'
             /\ lastNavEventAt = -1 \/ now - lastNavEventAt >= 1000 )
           => NavEmitted(emitted')
      ]_vars

\* C2 witness: a second navigate event, 1000 ms or more after the first
C2_Witness ==
    \E i \in NavEventsOf(emitted) : emitted[i].sincePrev >= 1000

C4_WrapAround ==
    [][ \A i \in NavEventsOf(emitted') :
            selectedImage # NoImage =>
                LET cur == CHOOSE k \in 0..(NumImages - 1) :
                               GALLERY_IMAGES[k + 1] = selectedImage
                    e == emitted'[i]
                IN /\ e.dir = "up" => e.index = (cur + 1) % NumImages
                   /\ e.dir = "down" => e.index = (cur - 1 + NumImages) % NumImages
                   /\ selectedImage' = GALLERY_IMAGES[e.index + 1]
      ]_vars

\* C4 witness: thumbs-up at the last index has wrapped to index 0
C4_Witness ==
    \E i \in NavEventsOf(emitted) :
        /\ emitted[i].dir = "up"
        /\ emitted[i].from = NumImages - 1
        /\ emitted[i].index = 0
        /\ selectedImage = GALLERY_IMAGES[1]

\* C8 as stated: once a snapshot in which the right hand is absent has been
\* processed, no gallery drag is engaged.
C8_VanishReleasesDrag ==
    (mounted /\ dirty = {} /\ rightHand = NoHand)
        => (draggedImage = NoImage /\ ~isDragging)

\* a commit (the step that keeps the page mounted) is about to process a
\* newly published right hand that is not pinching, while a move drag that the previous snapshot continued at a
\* position other than its anchor is engaged
ReleasePending ==
    /\ mounted
    /\ "rightHand" \in dirty
    /\ rightHand # NoHand /\ ~rightHand.isPinching
    /\ selectedImage # NoImage
    /\ isDraggingWithRight /\ rightPinchStart # NoPoint /\ ~isDismissing
    /\ prevRightHand # NoHand /\ prevRightHand.isPinching
    /\ ScreenX(prevRightHand) * 4 < innerWidth * 3

CloseEmitted(events) ==
    \E i \in 1..Len(events) : events[i].type = "close"

\* C5: a move drag released after being moved into the dismiss zone enters
\* Dismissing with one timer of 400 ms; when that timer fires, one close
\* event is emitted, the image is closed and the controller is idle again.
C5_DismissAfterDelay ==
    [][ /\ ( /\ ReleasePending /\ mounted'
             /\ XY(ScreenX(prevRightHand), ScreenY(prevRightHand)) # rightPinchStart
             /\ ScreenY(prevRightHand) * 100 > innerHeight * 85 )
           => /\ isDismissing'
              /\ timers' = Append(timers, now + 400)
              /\ ~isDraggingWithRight'
              /\ ~CloseEmitted(emitted')
        /\ CloseEmitted(emitted')
           => /\ timers # <<>>
              /\ now' = Head(timers)
              /\ timers' = Tail(timers)
              /\ emitted' = <<[type |-> "close"]>>
              /\ mounted => (~isDismissing' /\ selectedImage' = NoImage)
        /\ (mounted /\ isDismissing) => timers # <<>>
      ]_vars

\* C5 witness: the dismiss timer of a released drag has fired and closed
\* the image
C5_Witness ==
    /\ mounted
    /\ emitted = <<[type |-> "close"]>>
    /\ ~isDismissing /\ selectedImage = NoImage
    /\ prevRightHand # NoHand /\ prevRightHand.isPinching
    /\ ScreenY(prevRightHand) * 100 > innerHeight * 85

\* C6: a move drag released outside the dismiss zone resets pan to {0,0},
\* returns to idle and starts no dismiss timer.
C6_SnapBack ==
    [][ ( /\ ReleasePending /\ mounted'
          /\ ScreenY(prevRightHand) * 100 <= innerHeight * 85 )
        => /\ pan' = XY(0, 0)
           /\ ~isDraggingWithRight' /\ rightPinchStart' = NoPoint
           /\ ~isDismissing' /\ ~isInDismissZone'
           /\ timers' = timers
           /\ ~CloseEmitted(emitted')
      ]_vars

\* C6 witness: a drag that had moved the image has just snapped back
C6_Witness ==
    /\ dirty # {}
    /\ "isDraggingWithRight" \in dirty
    /\ rightHand # NoHand /\ ~rightHand.isPinching
    /\ prevRightHand # NoHand /\ prevRightHand.isPinching
    /\ ScreenY(prevRightHand) * 100 <= innerHeight * 85
    /\ pan = XY(0, 0) /\ ~isDraggingWithRight /\ rightPinchStart = NoPoint
    /\ timers = <<>> /\ selectedImage # NoImage

\* C7: a callback less than 16 ms after the last processed one is dropped
\* and changes nothing, one 16 ms or more after it is published, and two
\* consecutive publishes are at least 16 ms apart.
C7_Throttle ==
    [][ (emitted' # <<>> /\ emitted'[1].type \in {"drop", "publish"}) =>
          /\ emitted'[1].type = "drop" =>
                /\ lastPublishAt # -1 /\ now - lastPublishAt < 16
                /\ UNCHANGED <<lastProcessTime, leftHand, rightHand>>
          /\ emitted'[1].type = "publish" =>
                /\ emitted'[1].sincePrev = -1 \/ emitted'[1].sincePrev >= 16
                /\ lastProcessTime' = now
          /\ (lastPublishAt = -1 \/ now - lastPublishAt >= 16)
                => emitted'[1].type = "publish"
      ]_vars

\* C7 witness: a callback 5 ms after a published one has been dropped
C7_Witness ==
    /\ emitted = <<[type |-> "drop"]>>
    /\ now - lastPublishAt = 5
    /\ lastProcessTime = lastPublishAt

\* C9 as stated: when the left hand reappears pinching after an absence in
\* the middle of a pinch, that snapshot changes neither zoom nor pan.
C9_ReappearOnlyReanchors ==
    [][ ( /\ mounted /\ mounted'
          /\ "leftHand" \in dirty
          /\ prevLeftHand = NoHand
          /\ leftHand # NoHand /\ leftHand.isPinching
          /\ isPinching )
        => (zoom' = zoom /\ pan' = pan)
      ]_vars

\* C10 as stated: after teardown no close event is emitted.
C10_NoCloseAfterTeardown ==
    ~(~mounted /\ CloseEmitted(emitted))

\* C11: after teardown of the hook no frame is submitted to the detector.
C11_NoSendAfterTeardown ==
    ~mounted => ~(\E i \in 1..Len(emitted) : emitted[i].type = "send")

\* C11 witness: teardown came while a send call was outstanding; the loop
\* resumed when it settled, requested a frame, and processFrame returned
\* at its guard without submitting
C11_Witness ==
    /\ ~mounted /\ ~running
    /\ loopPc = "returned"
    /\ outstanding = 0
    /\ emitted = <<[type |-> "return"]>>

\* C12: at most one send call is outstanding, and a frame is submitted
\* only when none is.
C12_OneOutstanding ==
    [][ /\ outstanding <= 1
        /\ (\E i \in 1..Len(emitted') : emitted'[i].type = "send")
             => (outstanding = 0 /\ outstanding' = 1)
      ]_vars

\* C12 witness: a second frame has been submitted after the first send
\* call settled and its animation frame arrived
C12_Witness ==
    /\ emitted = <<[type |-> "send"]>>
    /\ outstanding = 1
    /\ lastPublishAt # -1


SelectEventsOf(events) ==
    {i \in 1..Len(events) : events[i].type = "select"}

\* the right hand's pinch lies inside the gallery's rectangle
PinchInGallery(hand) ==
    /\ ScreenX(hand) >= galleryRect.left /\ ScreenX(hand) <= galleryRect.right
    /\ ScreenY(hand) >= galleryRect.top /\ ScreenY(hand) <= galleryRect.bottom

\* C13 as stated: a gallery drag is engaged only on a snapshot whose right
\* hand is pinching inside the gallery while the snapshot before it was not
\* pinching, and the engaged target is an item of the gallery.
C13_EngageOnRisingEdge ==
    [][ (draggedImage = NoImage /\ draggedImage' # NoImage)
        => /\ rightHand # NoHand /\ rightHand.isPinching
           /\ PinchInGallery(rightHand)
           /\ FindIndex(draggedImage') # -1
           /\ prevRightHand = NoHand \/ ~prevRightHand.isPinching
      ]_vars

\* a commit is about to process a newly published right hand that is not
\* pinching while a gallery drag is engaged
GalleryReleasePending ==
    /\ mounted
    /\ "rightHand" \in dirty
    /\ draggedImage # NoImage
    /\ rightHand # NoHand /\ ~rightHand.isPinching

\* C14: releasing an engaged gallery drag returns to idle; it emits exactly
\* one select event with the engaged target and the release position when
\* the release is left of 75% of the width, and none otherwise.
C14_ReleaseSelectsOrCancels ==
    [][ (GalleryReleasePending /\ mounted')
        => LET pos == XY(ScreenX(rightHand), ScreenY(rightHand))
               sel == SelectEventsOf(emitted')
           IN /\ draggedImage' = NoImage /\ ~isDragging'
              /\ IF ScreenX(rightHand) * 4 < innerWidth * 3
                 THEN /\ Cardinality(sel) = 1
                      /\ \A i \in sel : /\ emitted'[i].image = draggedImage
                                         /\ emitted'[i].position = pos
                      /\ selectedImage' = draggedImage
                      /\ initialDragPos' = pos
                 ELSE /\ sel = {}
                      /\ selectedImage' = selectedImage
      ]_vars

\* C14 witness: a drag released over the main view has selected its target
C14_Witness ==
    /\ \E i \in SelectEventsOf(emitted) :
          /\ emitted[i].image = selectedImage
          /\ emitted[i].position = initialDragPos
    /\ draggedImage = NoImage /\ ~isDragging
    /\ prevRightHand # NoHand /\ prevRightHand.isPinching
    /\ ~rightHand.isPinching

\* C14 witness of the other branch is part of the formula's second case:
\* a release over the gallery that selected nothing
GalleryCancelReached ==
    /\ mounted /\ emitted = <<>>
    /\ "draggedImage" \in dirty /\ draggedImage = NoImage
    /\ rightHand # NoHand /\ ~rightHand.isPinching
    /\ selectedImage = NoImage

\* C15: while a dragged target is set, no navigate event is emitted and
\* the cooldown clock is not started.
C15_DragSuppressesThumbs ==
    [][ draggedImage # NoImage
        => /\ ~NavEmitted(emitted')
           /\ lastThumbActionTime' = lastThumbActionTime
      ]_vars

\* C15 witness: a thumbs-up snapshot has been processed during a drag,
\* outside any cooldown, and nothing was navigated
C15_Witness ==
    /\ mounted /\ dirty = {}
    /\ draggedImage # NoImage
    /\ rightHand # NoHand /\ rightHand.isThumbsUp
    /\ now - lastThumbActionTime >= 1000
    /\ lastNavEventAt = -1


\* what the move/dismiss controller may do to pan in one commit: follow
\* the right hand from its anchor, or snap back
PanByRightHandOnly ==
    \/ pan' = pan
    \/ pan' = XY(0, 0)
    \/ /\ rightHand # NoHand /\ rightPinchStart # NoPoint
       /\ pan' = XY(ScreenX(rightHand) - rightPinchStart.x,
                    ScreenY(rightHand) - rightPinchStart.y)

\* C16 as stated: a commit that ends in Dragging, the one that enters it
\* included, changes neither zoom nor, on behalf of the left hand, pan.
C16_DraggingSuppressesZoomPan ==
    [][ ( /\ mounted /\ mounted'
          /\ "selectedImage" \notin dirty
          /\ isDraggingWithRight' )
        => /\ zoom' = zoom
           /\ IF isDraggingWithRight THEN PanByRightHandOnly ELSE pan' = pan
      ]_vars

\* the published left hand is the first pinching one after a non-pinching one
LeftRisingEdge ==
    /\ leftHand # NoHand /\ leftHand.isPinching
    /\ prevLeftHand # NoHand /\ ~prevLeftHand.isPinching

\* the published left hand is the first non-pinching one after a pinching one
LeftFallingEdge ==
    /\ leftHand # NoHand /\ ~leftHand.isPinching
    /\ prevLeftHand # NoHand /\ prevLeftHand.isPinching

\* C17 as stated: with an image open and the controller not suppressed,
\* processing a rising edge of the left pinch leaves zoom alone and pan to
\* the right hand, and ends with the current position as the reference;
\* processing a falling edge ends with the reference discarded.
C17_RisingEdgeOnlyAnchors ==
    [][ ( /\ mounted /\ mounted'
          /\ selectedImage # NoImage /\ "selectedImage" \notin dirty
          /\ ~isDraggingWithRight
          /\ dirty # {} )
        => /\ LeftRisingEdge
              => /\ zoom' = zoom
                 /\ PanByRightHandOnly
                 /\ dirty' = {} => /\ isPinching'
                                   /\ lastPinchX' = ScreenX(leftHand)
                                   /\ lastPinchY' = ScreenY(leftHand)
           /\ (LeftFallingEdge /\ dirty' = {}) => ~isPinching'
      ]_vars


\* C18: zoom stays within [0.5, 4]; it changes only by a zoom tick, to
\* clamp(zoom - deltaY * 0.008, 0.5, 4), or by an image change, to 1.
C18_ZoomInRange ==
    [][ /\ zoom >= 500 /\ zoom <= 4000
        /\ zoom' >= 500 /\ zoom' <= 4000
        /\ zoom' # zoom
           => \/ "selectedImage" \in dirty /\ zoom' = 1000
              \/ /\ leftHand # NoHand /\ leftHand.isPinching /\ isPinching
                 /\ LET raw == zoom - (ScreenY(leftHand) - lastPinchY) * 8
                    IN zoom' = IF raw < 500 THEN 500
                               ELSE IF raw > 4000 THEN 4000 ELSE raw
      ]_vars

\* C18 witness: a zoom tick beyond the upper limit has been clamped to 4
C18_Witness ==
    /\ mounted /\ selectedImage # NoImage
    /\ zoom = 4000
    /\ leftHand # NoHand /\ leftHand.isPinching /\ isPinching

\* the published hands
PublishedHands == {h \in {leftHand, rightHand} : h # NoHand}

\* squared distance of thumb tip and index tip, in 1/10000
TipDistance2(h) ==
    LET t == h.landmarks[4]
        i == h.landmarks[8]
    IN (t.x - i.x) * (t.x - i.x) + (t.y - i.y) * (t.y - i.y)
       + (t.z - i.z) * (t.z - i.z)

\* C19: isPinching holds exactly when the 3-D tip distance is below 0.08
\* (its square below 0.0064); pinchStrength is 1 for coinciding tips, 0 from
\* the threshold on, and in between 1 - d/0.08 (checked to 1/8 of the range:
\* (1 - strength) * 0.08 and d have the same whole number of hundredths).
C19_PinchByDistance ==
    \A h \in PublishedHands :
        LET d2 == TipDistance2(h)
            r == ((10000 - h.pinchStrength) * 8) \div 10000
        IN /\ h.isPinching <=> d2 < 64
           /\ h.pinchStrength >= 0 /\ h.pinchStrength <= 10000
           /\ d2 = 0 => h.pinchStrength = 10000
           /\ d2 >= 64 => h.pinchStrength = 0
           /\ d2 < 64 => (r * r <= d2 /\ d2 < (r + 1) * (r + 1))

\* C19 witness: tips exactly 0.08 apart: no pinch, strength 0
C19_Witness ==
    /\ rightHand # NoHand
    /\ TipDistance2(rightHand) = 64
    /\ ~rightHand.isPinching /\ rightHand.pinchStrength = 0

FingersCurledIn(h) ==
    /\ h.landmarks[8].y > h.landmarks[6].y
    /\ h.landmarks[12].y > h.landmarks[10].y
    /\ h.landmarks[16].y > h.landmarks[14].y
    /\ h.landmarks[20].y > h.landmarks[18].y

ThumbExtendedIn(h) ==
    \/ h.landmarks[4].x - h.landmarks[0].x > 5
    \/ h.landmarks[0].x - h.landmarks[4].x > 5
    \/ h.landmarks[4].y - h.landmarks[0].y > 10
    \/ h.landmarks[0].y - h.landmarks[4].y > 10

\* C20: isThumbsUp holds exactly for curled fingers, extended thumb and
\* thumbCMC.y - thumbTip.y > 0.06, isThumbsDown for the same with that
\* difference < -0.06; +0.10 gives up only, -0.10 down only, and a
\* difference of magnitude <= 0.06 gives neither.
C20_ThumbGestureExact ==
    \A h \in PublishedHands :
        LET tv == h.landmarks[1].y - h.landmarks[4].y
            fist == FingersCurledIn(h) /\ ThumbExtendedIn(h)
        IN /\ h.isThumbsUp <=> (fist /\ tv > 6)
           /\ h.isThumbsDown <=> (fist /\ tv < -6)
           /\ (fist /\ tv = 10) => (h.isThumbsUp /\ ~h.isThumbsDown)
           /\ (fist /\ tv = -10) => (h.isThumbsDown /\ ~h.isThumbsUp)
           /\ (tv >= -6 /\ tv <= 6) => (~h.isThumbsUp /\ ~h.isThumbsDown)

\* C20 witness: a fist with the thumb extended and a difference of +0.02,
\* classified as neither
C20_Witness ==
    /\ rightHand # NoHand
    /\ FingersCurledIn(rightHand) /\ ThumbExtendedIn(rightHand)
    /\ rightHand.landmarks[1].y - rightHand.landmarks[4].y = 2
    /\ ~rightHand.isThumbsUp /\ ~rightHand.isThumbsDown


\* the detections of a processed callback that carry the given label and
\* are not followed by another one with the same label
LastWithLabel(results, label) ==
    {i \in 1..Len(results) :
        /\ results[i].label = label
        /\ \A j \in (i + 1)..Len(results) : results[j].label # label}

PublishEmitted(events) ==
    events # <<>> /\ events[1].type = "publish"

\* C21: a detection labelled 'Left' is published as rightHand and one
\* labelled 'Right' as leftHand; the handedness of a published hand is
\* the side it is published on.
C21_LabelsFlipped ==
    [][ PublishEmitted(emitted')
        => LET results == emitted'[1].results
           IN /\ \A i \in LastWithLabel(results, "Left") :
                    /\ rightHand' # NoHand
                    /\ rightHand'.landmarks = results[i].landmarks
              /\ \A i \in LastWithLabel(results, "Right") :
                    /\ leftHand' # NoHand
                    /\ leftHand'.landmarks = results[i].landmarks
              /\ leftHand' # NoHand => leftHand'.handedness = "Left"
              /\ rightHand' # NoHand => rightHand'.handedness = "Right"
      ]_vars

\* C21 witness: a callback with both labels has been published, each
\* detection on the opposite side
C21_Witness ==
    /\ PublishEmitted(emitted)
    /\ Len(emitted[1].results) = 2
    /\ emitted[1].results[1].label = "Right"
    /\ emitted[1].results[2].label = "Left"
    /\ leftHand # NoHand /\ rightHand # NoHand
    /\ leftHand.landmarks = emitted[1].results[1].landmarks
    /\ rightHand.landmarks = emitted[1].results[2].landmarks
    /\ leftHand.landmarks # rightHand.landmarks

\* C22: a side for which the processed callback has no detection is
\* published as null, whatever the previous snapshot held.
C22_NoStickiness ==
    [][ PublishEmitted(emitted')
        => LET results == emitted'[1].results
           IN /\ LastWithLabel(results, "Left") = {} => rightHand' = NoHand
              /\ LastWithLabel(results, "Right") = {} => leftHand' = NoHand
      ]_vars

\* C22 witness: a callback without hands has been published after a
\* snapshot that carried both
C22_Witness ==
    /\ PublishEmitted(emitted)
    /\ emitted[1].results = <<>>
    /\ prevLeftHand # NoHand /\ prevRightHand # NoHand
    /\ leftHand = NoHand /\ rightHand = NoHand

\* C24: when the awaited send call rejects, the loop requests the next
\* animation frame, isReady stays true and the published hands stay.
C24_SendErrorSwallowed ==
    [][ emitted' = <<[type |-> "settle", ok |-> FALSE]>>
        => /\ loopPc' = "raf"
           /\ isReady /\ isReady'
           /\ UNCHANGED <<leftHand, rightHand, lastProcessTime>>
      ]_vars

\* C24 witness: a send call has rejected after a hand was published; the
\* next animation frame is requested
C24_Witness ==
    /\ emitted = <<[type |-> "settle", ok |-> FALSE]>>
    /\ loopPc = "raf" /\ isReady
    /\ rightHand # NoHand

\* C25: initialisation of the detector on a mounted page sets isReady;
\* isReady is never cleared, and no publish changes it.
C25_ReadyMonotonic ==
    [][ /\ isReady => isReady'
        /\ (emitted' = <<[type |-> "init"]>> /\ mounted) => isReady'
        /\ PublishEmitted(emitted') => isReady' = isReady
      ]_vars

\* C25 witness: isReady is true and a callback without any hand has been
\* published
C25_Witness ==
    /\ isReady
    /\ PublishEmitted(emitted) /\ emitted[1].results = <<>>
    /\ leftHand = NoHand /\ rightHand = NoHand


\* the published snapshot is the one published before it, and a commit
\* is processing it
ReplayCommitPending ==
    /\ mounted /\ dirty # {}
    /\ lastPublishAt # -1
    /\ leftHand = prevLeftHand /\ rightHand = prevRightHand

DragSelectIdle == draggedImage = NoImage /\ ~isDragging
ZoomPanIdle == ~isPinching
MoveDismissIdle == rightPinchStart = NoPoint /\ ~isDraggingWithRight /\ ~isDismissing
NavigationIdle == now - lastThumbActionTime >= 1000

\* the three continuous controllers stay idle over a commit of a replayed
\* snapshot and emit nothing
ReplayKeepsIdle ==
    /\ DragSelectIdle
       => /\ DragSelectIdle'
          /\ SelectEventsOf(emitted') = {}
    /\ ZoomPanIdle
       => /\ ZoomPanIdle'
          /\ UNCHANGED <<lastPinchX, lastPinchY>>
          /\ IF "selectedImage" \in dirty THEN zoom' = 1000 ELSE zoom' = zoom
    /\ MoveDismissIdle
       => /\ MoveDismissIdle'
          /\ timers' = timers
          /\ IF "selectedImage" \in dirty THEN pan' = XY(0, 0)
             ELSE ZoomPanIdle => pan' = pan

ReplayedPinchStaysIdle ==
    /\ dirty = {} /\ lastPublishAt # -1
    /\ rightHand = prevRightHand /\ leftHand = prevLeftHand
    /\ rightHand # NoHand /\ rightHand.isPinching
    /\ DragSelectIdle /\ MoveDismissIdle /\ ZoomPanIdle


\* C26: a navigate event computed while no image is selected starts from
\* the index of the last selected image: thumbs-up selects (i+1) mod N and
\* thumbs-down (i-1+N) mod N.  The last selected image is the open image
\* whenever one is open, and it is kept while the viewer is closed.
C26_NavigateFromLastSelected ==
    [][ /\ \A i \in NavEventsOf(emitted') :
              (emitted'[i].closed /\ lastSelectedId # NoImage)
              => LET from == FindIndex(lastSelectedId)
                     N == Len(GALLERY_IMAGES)
                 IN /\ emitted'[i].from = from
                    /\ emitted'[i].index =
                          IF emitted'[i].dir = "up" THEN (from + 1) % N
                          ELSE (from - 1 + N) % N
                    /\ selectedImage' = ImageAt(emitted'[i].index)
        /\ (dirty' = {} /\ selectedImage' # NoImage)
           => lastSelectedId' = selectedImage'
        /\ (selectedImage = NoImage /\ selectedImage' = NoImage)
           => lastSelectedId' = lastSelectedId
      ]_vars

\* C26 witness: with the viewer closed after the last image, a thumbs-up
\* has wrapped to the first one
C26_Witness ==
    \E i \in NavEventsOf(emitted) :
        /\ emitted[i].closed
        /\ emitted[i].dir = "up"
        /\ emitted[i].from = Len(GALLERY_IMAGES) - 1 /\ emitted[i].index = 0
        /\ selectedImage = ImageAt(0)

\* the same for a thumbs-down: it has selected the image before the last
NavigateClosedBack ==
    \E i \in NavEventsOf(emitted) :
        /\ emitted[i].closed
        /\ emitted[i].dir = "down"
        /\ emitted[i].from = Len(GALLERY_IMAGES) - 1
        /\ emitted[i].index = Len(GALLERY_IMAGES) - 2

\* C27 as stated: the move/dismiss controller records an anchor only on a
\* snapshot whose right hand is pinching left of 75% of the width while
\* the snapshot before it was not pinching; the anchor is the pinch
\* position, Dragging is entered and pan is left alone.
C27_EngageOnRisingEdgeInRegion ==
    [][ (mounted' /\ rightPinchStart = NoPoint /\ rightPinchStart' # NoPoint)
        => /\ rightHand # NoHand /\ rightHand.isPinching
           /\ ScreenX(rightHand) * 4 < innerWidth * 3
           /\ rightPinchStart' = XY(ScreenX(rightHand), ScreenY(rightHand))
           /\ isDraggingWithRight'
           /\ pan' = pan
           /\ prevRightHand = NoHand \/ ~prevRightHand.isPinching
      ]_vars

\* a commit is about to run the right-hand effect of the viewer on a
\* pinching hand while the controller is Dragging
DragFollowPending ==
    /\ mounted /\ Runs(RightHandDeps)
    /\ selectedImage # NoImage /\ "selectedImage" \notin dirty
    /\ rightPinchStart # NoPoint
    /\ rightHand # NoHand /\ rightHand.isPinching

\* C28: while Dragging, a pinching snapshot left of 75% of the width sets
\* pan to its position minus the anchor, one at 75% or beyond changes
\* neither pan nor the anchor nor the dragging flag, and the anchor only
\* changes on a release or when the image changes.
C28_PanFollowsFromAnchor ==
    [][ /\ (DragFollowPending /\ mounted')
           => IF ScreenX(rightHand) * 4 < innerWidth * 3
              THEN /\ pan' = XY(ScreenX(rightHand) - rightPinchStart.x,
                                ScreenY(rightHand) - rightPinchStart.y)
                   /\ rightPinchStart' = rightPinchStart
                   /\ isDraggingWithRight'
              ELSE /\ pan' = pan
                   /\ rightPinchStart' = rightPinchStart
                   /\ isDraggingWithRight' = isDraggingWithRight
        /\ (rightPinchStart # NoPoint /\ rightPinchStart' # rightPinchStart)
           => /\ rightPinchStart' = NoPoint
              /\ \/ "selectedImage" \in dirty
                 \/ rightHand # NoHand /\ ~rightHand.isPinching
      ]_vars

\* C28 witness: an image dragged down by 400 px has kept pan and anchor
\* over a snapshot whose held pinch is over the gallery
C28_Witness ==
    /\ dirty = {} /\ isDraggingWithRight
    /\ LET engagedWith == HandDataOf(PinchPose(35, 50), "Right")
       IN rightPinchStart = XY(ScreenX(engagedWith), ScreenY(engagedWith))
    /\ pan.y = 400
    /\ rightHand # NoHand /\ rightHand.isPinching
    /\ ScreenX(rightHand) * 4 >= innerWidth * 3


\* a commit is about to process a newly published left hand that pinches
\* as the one before it did, with an image open and no drag by the right
\* hand
LeftFollowPending ==
    /\ mounted /\ "leftHand" \in dirty
    /\ selectedImage # NoImage /\ "selectedImage" \notin dirty
    /\ ~isDraggingWithRight
    /\ leftHand # NoHand /\ leftHand.isPinching
    /\ prevLeftHand # NoHand /\ prevLeftHand.isPinching

LeftDeltaX == ScreenX(leftHand) - ScreenX(prevLeftHand)
LeftDeltaY == ScreenY(leftHand) - ScreenY(prevLeftHand)

\* on such a tick pan.x changes only beyond the dead zone of 5 px, and the
\* reference becomes the current position
PanGateAndReference ==
    /\ pan'.x # pan.x => Abs(LeftDeltaX) > 5
    /\ lastPinchX' = ScreenX(leftHand)
    /\ lastPinchY' = ScreenY(leftHand)
    /\ isPinching'

\* C29 as stated: on a non-rising pinching tick zoom changes if and only
\* if |deltaY| > 0.5 |deltaX|, pan.x changes only if |deltaX| > 5, and the
\* reference becomes the current position.
C29_ZoomChangesIffGate ==
    [][ (LeftFollowPending /\ mounted')
        => /\ zoom' # zoom <=> Abs(LeftDeltaY) * 2 > Abs(LeftDeltaX)
           /\ PanGateAndReference
      ]_vars

\* C29 amended: zoom is set to clamp(zoom - deltaY * 0.008, 0.5, 4) if and
\* only if |deltaY| > 0.5 |deltaX| (so it changes unless the clamp holds it
\* at a limit); the rest as stated.
C29_ZoomSetIffGate ==
    [][ (LeftFollowPending /\ mounted')
        => /\ zoom' = IF Abs(LeftDeltaY) * 2 > Abs(LeftDeltaX)
                      THEN Max(500, Min(4000, zoom - LeftDeltaY * 8))
                      ELSE zoom
           /\ zoom' # zoom => Abs(LeftDeltaY) * 2 > Abs(LeftDeltaX)
           /\ PanGateAndReference
      ]_vars

\* C29 witness: one tick has changed both zoom and pan.x
C29_Witness ==
    /\ dirty = {} /\ selectedImage # NoImage
    /\ leftHand # NoHand /\ leftHand.isPinching
    /\ prevLeftHand # NoHand /\ prevLeftHand.isPinching
    /\ Abs(LeftDeltaY) * 2 > Abs(LeftDeltaX) /\ Abs(LeftDeltaX) > 5
    /\ lastPinchX = ScreenX(leftHand) /\ lastPinchY = ScreenY(leftHand)
    /\ zoom = 4000 /\ pan.x = -100

\* a tick has changed pan.x and left zoom alone
PanOnlyTickReached ==
    /\ dirty = {} /\ selectedImage # NoImage
    /\ leftHand # NoHand /\ leftHand.isPinching
    /\ prevLeftHand # NoHand /\ prevLeftHand.isPinching
    /\ Abs(LeftDeltaY) * 2 <= Abs(LeftDeltaX) /\ Abs(LeftDeltaX) > 5
    /\ zoom = 1000 /\ pan.x # 0

\* a tick has changed zoom and left pan alone
ZoomOnlyTickReached ==
    /\ dirty = {} /\ selectedImage # NoImage
    /\ leftHand # NoHand /\ leftHand.isPinching
    /\ prevLeftHand # NoHand /\ prevLeftHand.isPinching
    /\ Abs(LeftDeltaY) * 2 > Abs(LeftDeltaX) /\ Abs(LeftDeltaX) <= 5
    /\ zoom # 1000 /\ pan.x = 0

\* a tick with a gate open has left zoom at its lower limit
ZoomPinnedTickReached ==
    /\ dirty = {} /\ selectedImage # NoImage
    /\ leftHand # NoHand /\ leftHand.isPinching
    /\ prevLeftHand # NoHand /\ prevLeftHand.isPinching
    /\ LeftDeltaY > 0 /\ LeftDeltaX = 0
    /\ lastPinchY = ScreenY(leftHand)
    /\ zoom = 500

\* a commit is about to run the pan branch of the left-hand effect
LeftPanPending ==
    /\ mounted /\ Runs(LeftHandDeps)
    /\ selectedImage # NoImage /\ "selectedImage" \notin dirty
    /\ ~isDraggingWithRight
    /\ leftHand # NoHand /\ leftHand.isPinching
    /\ isPinching
    /\ Abs(ScreenX(leftHand) - lastPinchX) > 5

\* C30: a pan update of the left hand keeps pan.y and sets pan.x to
\* clamp(pan.x + deltaX * 0.5, -300, 300), which lies in [-300, 300].
C30_LeftPanClamped ==
    [][ (LeftPanPending /\ mounted')
        => LET deltaX == ScreenX(leftHand) - lastPinchX
               moved == pan.x + deltaX \div 2
           IN /\ pan'.y = pan.y
              /\ pan'.x = (IF moved < -300 THEN -300
                           ELSE IF moved > 300 THEN 300 ELSE moved)
              /\ pan'.x >= -300 /\ pan'.x <= 300
      ]_vars

\* C30 witness: the right hand let go of the image at pan (-600, 400) in
\* the dismiss zone, and a pan tick of the left hand has brought pan.x to
\* -300 with pan.y as it was
C30_Witness ==
    /\ isDismissing /\ ~isDraggingWithRight
    /\ leftHand # NoHand /\ leftHand.isPinching
    /\ lastPinchX = ScreenX(leftHand)
    /\ pan = XY(-300, 400)


\* C31: an engaged gallery target is an item of the gallery; until the
\* release it stays the same item whatever lies under the pinch, and a
\* commit with the pinch held changes nothing of the gallery but the drag
\* position.
C31_TargetResolvedOnce ==
    [][ /\ draggedImage' # NoImage => FindIndex(draggedImage') # -1
        /\ (draggedImage # NoImage /\ draggedImage' # draggedImage)
           => /\ draggedImage' = NoImage
              /\ rightHand # NoHand /\ ~rightHand.isPinching
        /\ (mounted /\ mounted' /\ dirty # {} /\ draggedImage # NoImage
              /\ rightHand # NoHand /\ rightHand.isPinching)
           => /\ dragPosition' = XY(ScreenX(rightHand), ScreenY(rightHand))
              /\ UNCHANGED <<draggedImage, isDragging, scrollY, lastPinchState,
                             lastThumbActionTime, lastSelectedId, selectedImage>>
      ]_vars

\* C31 witness: an engaged drag has followed the held pinch to another
\* position
C31_Witness ==
    /\ dirty = {} /\ draggedImage # NoImage /\ isDragging
    /\ rightHand # NoHand /\ rightHand.isPinching
    /\ prevRightHand # NoHand /\ prevRightHand.isPinching
    /\ ScreenY(prevRightHand) # ScreenY(rightHand)
    /\ dragPosition = XY(ScreenX(rightHand), ScreenY(rightHand))


\* C32: of two detections with the same label the later one is published,
\* on the side opposite to the label, and the other side is null.
C32_LastWins ==
    [][ ( /\ PublishEmitted(emitted')
          /\ Len(emitted'[1].results) = 2
          /\ emitted'[1].results[1].label = emitted'[1].results[2].label )
        => LET second == emitted'[1].results[2]
           IN IF second.label = "Left"
              THEN /\ leftHand' = NoHand
                   /\ rightHand' # NoHand
                   /\ rightHand'.landmarks = second.landmarks
              ELSE /\ rightHand' = NoHand
                   /\ leftHand' # NoHand
                   /\ leftHand'.landmarks = second.landmarks
      ]_vars

\* C32 witness: two different detections labelled 'Left' have been
\* published as the second one on the right and nothing on the left
C32_Witness ==
    /\ PublishEmitted(emitted)
    /\ Len(emitted[1].results) = 2
    /\ emitted[1].results[1].label = "Left"
    /\ emitted[1].results[2].label = "Left"
    /\ emitted[1].results[1].landmarks # emitted[1].results[2].landmarks
    /\ leftHand = NoHand /\ rightHand # NoHand
    /\ rightHand.landmarks = emitted[1].results[2].landmarks
    /\ rightHand.isPinching


\* C33 as stated: a release of a move drag enters Dismissing exactly when
\* the last pinching snapshot left of 75% of the width, here the snapshot
\* before the release, was below 85% of the height; the position of the
\* release snapshot does not matter.
C33_DismissByLastDragPosition ==
    [][ (ReleasePending /\ mounted')
        => ( isDismissing' <=> ScreenY(prevRightHand) * 100 > innerHeight * 85 )
      ]_vars


\* C34: the commit that follows a change of the displayed image (a drop
\* from the gallery, a navigation or a close) leaves the viewer neutral.
C34_ResetOnImageChange ==
    [][ (mounted /\ mounted' /\ "selectedImage" \in dirty)
        => /\ zoom' = 1000
           /\ pan' = XY(0, 0)
           /\ ~isDraggingWithRight' /\ ~isInDismissZone' /\ ~isDismissing'
           /\ rightPinchStart' = NoPoint
      ]_vars

\* C34 witness: an image dragged down into the dismiss zone has been
\* closed, and the viewer is neutral
C34_Witness ==
    /\ mounted /\ dirty = {}
    /\ selectedImage = NoImage /\ lastSelectedId # NoImage
    /\ timers = <<>>
    /\ zoom = 1000 /\ pan = XY(0, 0)
    /\ ~isDraggingWithRight /\ ~isInDismissZone /\ ~isDismissing
    /\ rightPinchStart = NoPoint

\* an image changed under the right hand's thumb while another one was
\* being dismissed
ImageChangedWhileDismissing ==
    /\ timers # <<>> /\ ~isDismissing /\ dirty = {}
    /\ selectedImage # NoImage
    /\ pan = XY(0, 0) /\ rightPinchStart = NoPoint

\* C36 as stated: the dismiss timer closes an image only while the viewer
\* is Dismissing that image; an image selected during the delay (the reset
\* on its selection ends Dismissing) is not closed by it.
C36_TimerClosesOnlyItsImage ==
    [][ (mounted /\ CloseEmitted(emitted') /\ selectedImage # NoImage /\ ~isDismissing)
        => selectedImage' = selectedImage
      ]_vars

\* C37 as stated: a gallery drag and a move drag are never engaged
\* together.
C37_OneDragController ==
    ~(draggedImage # NoImage /\ rightPinchStart # NoPoint)


\* C38: the viewer is never Dismissing and Dragging at once, and a commit
\* of a Dismissing viewer whose image stays records no anchor, leaves pan
\* and the pending timer as they are and stays Dismissing.
C38_DismissingIgnoresRightHand ==
    [][ /\ ~(isDismissing' /\ (isDraggingWithRight' \/ rightPinchStart' # NoPoint))
        /\ ( /\ mounted /\ mounted'
             /\ isDismissing /\ dirty # {} /\ "selectedImage" \notin dirty )
           => /\ rightPinchStart' = NoPoint
              /\ ~isDraggingWithRight'
              /\ pan' = pan
              /\ timers' = timers
              /\ isDismissing'
      ]_vars

\* C38 witness: a Dismissing viewer has processed a pinch in the main view
\* that came after the release, and has kept pan and its one timer
C38_Witness ==
    /\ mounted /\ dirty = {}
    /\ isDismissing /\ ~isDraggingWithRight /\ rightPinchStart = NoPoint
    /\ Len(timers) = 1
    /\ pan.y > 0
    /\ rightHand # NoHand /\ rightHand.isPinching
    /\ ScreenX(rightHand) * 4 < innerWidth * 3
    /\ prevRightHand # NoHand /\ ~prevRightHand.isPinching


\* C39: every navigate event carries an index of the gallery, selects the
\* image at it and scrolls to max(0, index * 140 - 100); when no image was
\* ever selected thumbs-up selects index 0 and thumbs-down index N-1, and
\* so they do from an id that findIndex does not find.
C39_NavigateIndexInRange ==
    [][ /\ \A i \in NavEventsOf(emitted') :
              LET e == emitted'[i]
                  N == Len(GALLERY_IMAGES)
              IN /\ e.index \in 0..(N - 1)
                 /\ selectedImage' = GALLERY_IMAGES[e.index + 1]
                 /\ scrollY' = (IF e.index * 140 - 100 > 0
                                THEN e.index * 140 - 100 ELSE 0)
                 /\ scrollY' >= 0
                 /\ (selectedImage = NoImage /\ lastSelectedId = NoImage)
                    => e.index = (IF e.dir = "up" THEN 0 ELSE N - 1)
        /\ \A id \in {"0", "unknown"} :
              /\ FindIndex(id) = -1
              /\ NextIndex(FindIndex(id)) = 0
              /\ PrevIndex(FindIndex(id)) = Len(GALLERY_IMAGES) - 1
      ]_vars

\* C39 witness: the first selection ever is a thumbs-down; it has selected
\* the last image and scrolled to it
C39_Witness ==
    /\ lastSelectedId = NoImage
    /\ selectedImage = GALLERY_IMAGES[Len(GALLERY_IMAGES)]
    /\ scrollY = (Len(GALLERY_IMAGES) - 1) * 140 - 100
    /\ \E i \in NavEventsOf(emitted) :
          /\ emitted[i].dir = "down" /\ emitted[i].closed
          /\ emitted[i].index = Len(GALLERY_IMAGES) - 1

\* the first selection ever is a thumbs-up: it has selected the first image
FirstThumbsUpSelectsFirst ==
    /\ lastSelectedId = NoImage
    /\ selectedImage = GALLERY_IMAGES[1] /\ scrollY = 0
    /\ \E i \in NavEventsOf(emitted) :
          emitted[i].dir = "up" /\ emitted[i].closed /\ emitted[i].index = 0


FingersExtendedIn(h) ==
    /\ h.landmarks[8].y < h.landmarks[6].y
    /\ h.landmarks[12].y < h.landmarks[10].y
    /\ h.landmarks[16].y < h.landmarks[14].y
    /\ h.landmarks[20].y < h.landmarks[18].y

ThumbSplayedIn(h) ==
    \/ h.landmarks[4].x - h.landmarks[2].x > 5
    \/ h.landmarks[2].x - h.landmarks[4].x > 5

\* C40: isOpenPalm holds exactly when the four finger tips are above their
\* PIP joints and the thumb tip is more than 0.05 from its MCP joint in x;
\* it is never true together with isThumbsUp or isThumbsDown.
C40_OpenPalmExact ==
    \A h \in PublishedHands :
        /\ h.isOpenPalm <=> (FingersExtendedIn(h) /\ ThumbSplayedIn(h))
        /\ h.isOpenPalm => (~h.isThumbsUp /\ ~h.isThumbsDown)
        /\ (h.isThumbsUp \/ h.isThumbsDown) => ~h.isOpenPalm

\* C40 witness: an open palm that is pinching
C40_Witness ==
    /\ rightHand # NoHand
    /\ rightHand.isOpenPalm /\ rightHand.isPinching
    /\ FingersExtendedIn(rightHand) /\ ThumbSplayedIn(rightHand)

\* a thumb exactly 0.05 from its MCP joint: not an open palm
PalmBoundaryReached ==
    /\ rightHand # NoHand
    /\ FingersExtendedIn(rightHand)
    /\ rightHand.landmarks[2].x - rightHand.landmarks[4].x = 5
    /\ ~rightHand.isOpenPalm

\* a fist with the thumb up and splayed from its MCP joint: thumbs-up, not
\* an open palm
SplayedFistReached ==
    /\ rightHand # NoHand
    /\ ThumbSplayedIn(rightHand) /\ FingersCurledIn(rightHand)
    /\ rightHand.isThumbsUp /\ ~rightHand.isOpenPalm


\* what one run of the scroll effect makes of the offset
ScrolledFrom(y) ==
    IF rightHand = NoHand \/ draggedImage # NoImage THEN y
    ELSE IF rightHand.isThumbsUp THEN Max(0, y - SCROLL_SPEED)
    ELSE IF rightHand.isThumbsDown THEN Min(maxScroll, y + SCROLL_SPEED)
    ELSE y

\* C35: in the scrolling gallery the scroll offset stays within
\* [0, maxScroll]; a run of the scroll effect on a thumbs-up snapshot sets it
\* to max(0, scrollY - SCROLL_SPEED), on a thumbs-down snapshot to
\* min(maxScroll, scrollY + SCROLL_SPEED), and with the hand absent or a drag
\* active it leaves it unchanged; nothing else moves it.
C35_ScrollWithinLimits ==
    [][/\ scrollY' >= 0 /\ scrollY' <= maxScroll
       /\ scrollY' = IF mounted /\ dirty \cap ScrollDeps # {}
                     THEN ScrolledFrom(scrollY)
                     ELSE scrollY]_vars

\* C35 witness: a thumbs-down snapshot less than SCROLL_SPEED short of
\* maxScroll has stopped the offset at maxScroll
C35_Witness ==
    /\ scrollY = maxScroll
    /\ maxScroll > 0 /\ maxScroll % SCROLL_SPEED # 0
    /\ rightHand # NoHand /\ rightHand.isThumbsDown
    /\ dirty = {}

\* a thumbs-up snapshot at offset 0 has left the offset at 0
ScrollStaysAtTop ==
    /\ scrollY = 0 /\ rightHand # NoHand /\ rightHand.isThumbsUp
    /\ lastPublishAt # -1 /\ dirty = {}

\* a thumbs-up snapshot at maxScroll has scrolled back by SCROLL_SPEED
ScrolledUpFromLimit ==
    /\ scrollY = maxScroll - SCROLL_SPEED /\ maxScroll % SCROLL_SPEED # 0
    /\ rightHand # NoHand /\ rightHand.isThumbsUp /\ dirty = {}

\* a thumbs-up snapshot during a drag that goes on: the offset did not move
DragHoldsScroll ==
    /\ draggedImage # NoImage /\ rightHand # NoHand /\ rightHand.isThumbsUp
    /\ prevRightHand # NoHand /\ prevRightHand.isPinching
    /\ ~prevRightHand.isThumbsUp
    /\ scrollY > 0 /\ scrollY < maxScroll /\ dirty = {}

\* the pinched item depends on the scroll offset
ScrolledItemDragged ==
    /\ draggedImage = Scrolling_GALLERY_IMAGES[5] /\ scrollY > 0


=============================================================================
